---- MODULE Spec2Model ----
(***************************************************************************)
(* A model of the coordination and scheduling engine of stac_dc:           *)
(*   - the storage lock of stac_dc/storage/storage.py (LOCK part),         *)
(*   - the orchestrator of stac_dc/dataset_orchestrator.py (ORCH part),    *)
(*   - the worker pipeline of stac_dc/dataset_worker (WORK part).          *)
(* Each part has its own specification over the shared variable list; the  *)
(* variables of the other parts stay at their initial value.               *)
(***************************************************************************)
EXTENDS Integers, Sequences, FiniteSets, TLC

VARIABLES
    \* ---- LOCK part: the object store and the processes using the lock
    now,          \* time.time(), in units of 0.5 s
    objects,      \* the store: lock file name -> <<>> (no object) or <<record>>
    pc,           \* per process: position in locked/acquire_lock/release_lock
    key,          \* per process: remote_file_path
    max_retries,  \* per process: max_retries argument
    ttl,          \* per process: ttl argument
    attempt,      \* per process: loop variable of acquire_lock
    stamp,        \* per process: "timestamp" written into tmp_lock
    content,      \* per process: the record last downloaded, <<>> before
    lock_id,      \* per process: lock_id of locked(), <<>> is None
    exc,          \* per process: the exception the call ended with
    bodyRan,      \* per process: the with-body was entered
    relTried,     \* per process: release_lock was called, with these ids
    sleeps,       \* per process: number of time.sleep calls of acquire_lock
    staleAtCall,  \* per process: the lock object was expired when acquire_lock began
    delLog,       \* every delete of a lock object: who, why, what was deleted
    \* ---- ORCH part: one DatasetOrchestrator and the threads in execute()
    olock,        \* self._lock: 0 when free, else the thread holding it
    o_max_retries,\* self._max_retries
    run_attempt,  \* worker._run_attempt
    opc,          \* per thread: position in _run_scheduled/_run_once
    ticks,        \* per thread: iterations of the schedule loop begun
    runs,         \* per thread: worker.run() calls begun in this _run_once
    failed,       \* per thread: worker.run() calls of this _run_once that raised
    sinceReset,   \* failed attempts since the last reset_run_attempt
    reported,     \* per thread: the last _report_error: none/retry/exiting
    delay,        \* per thread: the last retry delay slept, 0 before
    idleSkip,     \* some tick was skipped while no thread was in _run_once
    \* ---- WORK part: one DatasetWorker, its storage and one run()
    wpc,          \* position in run()
    w_kind,       \* "cds" (CDSWorker.run) or "landsat" (LandsatWorker.run)
    w_today,      \* datetime.now(timezone.utc).date(), a day number
    w_thr,        \* env redownload_threshold: <<n>>, or <<>> when not loaded
    w_recat,      \* env recatalogize_only: "true", "false", or "unset"
    w_nprod,      \* product_types x formats (cds), files found (landsat)
    markerFile,   \* <dataset>/last_downloaded_day.json: <<>> or <<AOI map>>
    plan,         \* days_to_download
    idx,          \* index in plan of the day being processed
    prod,         \* index of the product or file being processed
    assets,       \* number of assets recorded for the day
    dayLog,       \* the steps completed for the day being processed
    w_lock,       \* the worker holds the lock of the marker file
    contents,     \* last_downloaded_day_file_contents, <<>> outside the update
    wlog,         \* the marker read after each finished day
    w_exc,        \* the exception that ended run(), "none" otherwise
    startMarker,  \* the AOI's marker entry when run() began
    uploads,      \* the uploads of shared bookkeeping files done by run()
    itemsFile,    \* <dataset>/items_missing_usgs_stac.json: <<>> or <<ids>>
    i_data,       \* the local list `data` of the items-missing helpers
    i_lock,       \* the worker holds the lock of the items-missing file
    \* ---- CAT part: one call of STAC.register_stac_item
    c_pc,         \* position in register_stac_item
    c_item,       \* the id of the item in json_string
    c_log,        \* the requests sent, each with what came back
    c_target,     \* the feature id handed to _delete_stac_item
    c_ret,        \* <<>>, <<featureId>> returned, or the exception raised
    \* ---- PLAN part: one call of _get_days_to_download
    pl_pc,        \* "call" before the plan is computed, "done" after
    pl_args,      \* today, the marker read, and the parameters
    pl_days,      \* the list returned
    \* ---- CALC part: one call of a pure function of the orchestrator
    f_pc,         \* "call" before the call, "done" after, "idle" when unused
    f_in,         \* the arguments and the clock read
    f_out,        \* the value computed
    \* ---- FLEET part: STAC_DC.run and the futures of its orchestrators
    fl_pc,        \* position in run(): submit / waiting / returned
    fl_state,     \* per orchestrator: pending / running / failed
    fl_ticks,     \* per orchestrator: schedule iterations done
    fl_seen,      \* the futures as_completed has yielded so far
    fl_log,       \* the error log lines of run(), one orchestrator each
    \* ---- SAVE part: two processes in _save_item_missing_usgs_stac
    sv_pc,        \* per process: position in _save_item_missing_usgs_stac
    sv_data,      \* per process: the local list `data`
    sv_file,      \* items_missing_usgs_stac.json: <<>> or <<ids>>
    sv_lock,      \* the process holding the lock of the file, 0 when free
    sv_exc,       \* per process: the exception the call ended with
    \* ---- AUTH part: one client and the token it sends
    a_kind,       \* "stac" (STAC) or "usgs" (USGSM2MConnector), "none" when unused
    a_pc,         \* position: idle / login / send
    a_now,        \* datetime.now(timezone.utc), in hours
    a_until,      \* _api_token_valid_until, in hours
    a_token,      \* the token held: <<>> (None) or <<the hour it was issued>>
    a_log,        \* the requests sent to non-auth endpoints, each with its token
    a_exc,        \* the exception the last request ended with, "none" otherwise
    \* ---- PROC part: one call of CDSWorker._process_day
    pd_pc,        \* position in _process_day: check / fetch / store / returned / raised
    pd_force,     \* the argument force_redownload
    pd_keys,      \* the combinations whose storage key exists when the call begins
    pd_k,         \* the (product_type, data_format) combination being handled
    pd_checked,   \* the combinations storage.exists was asked about
    pd_fetched,   \* the combinations _download_from_api was called for
    pd_uploaded,  \* the combinations _save_to_storage was called for
    pd_assets,    \* the combinations with an asset in `assets`
    pd_exc,       \* the exception that ended the call, "none" otherwise
    \* ---- RETRY part: one call of STAC._retry_request
    rr_pc,        \* position in _retry_request: loop / returned / raised
    rr_max,       \* the argument max_retries
    rr_retry,     \* the local retry
    rr_log,       \* what each HTTP attempt ended with: a status, 0 for an error
    rr_sleeps,    \* the sleeps taken, in tenths of a second
    rr_ret        \* <<>>, <<status>> of the response returned, or the exception raised

lockVars == <<now, objects, pc, key, max_retries, ttl, attempt, stamp, content,
              lock_id, exc, bodyRan, relTried, sleeps, staleAtCall, delLog>>

orchVars == <<olock, o_max_retries, run_attempt, opc, ticks, runs, failed,
              sinceReset, reported, delay, idleSkip>>

workVars == <<wpc, w_kind, w_today, w_thr, w_recat, w_nprod, markerFile, plan,
              idx, prod, assets, dayLog, w_lock, contents, wlog, w_exc,
              startMarker, uploads, itemsFile, i_data, i_lock>>

itemsVars == <<itemsFile, i_data, i_lock>>

catVars == <<c_pc, c_item, c_log, c_target, c_ret>>

planVars == <<pl_pc, pl_args, pl_days>>

calcVars == <<f_pc, f_in, f_out>>

fleetVars == <<fl_pc, fl_state, fl_ticks, fl_seen, fl_log>>

saveVars == <<sv_pc, sv_data, sv_file, sv_lock, sv_exc>>

authVars == <<a_kind, a_pc, a_now, a_until, a_token, a_log, a_exc>>

procVars == <<pd_pc, pd_force, pd_keys, pd_k, pd_checked, pd_fetched, pd_uploaded, pd_assets, pd_exc>>

retryVars == <<rr_pc, rr_max, rr_retry, rr_log, rr_sleeps, rr_ret>>

vars == <<lockVars, orchVars, workVars, catVars, planVars, calcVars,
          fleetVars, saveVars, authVars, procVars, retryVars>>

\* What the actions of one part leave alone.
otherThanLock == <<orchVars, workVars, catVars, planVars, calcVars, fleetVars,
                  saveVars, authVars, procVars, retryVars>>
otherThanOrch == <<lockVars, workVars, catVars, planVars, calcVars, fleetVars,
                  saveVars, authVars, procVars, retryVars>>
otherThanWork == <<lockVars, orchVars, catVars, planVars, calcVars, fleetVars,
                  saveVars, authVars, procVars, retryVars>>
otherThanCat == <<lockVars, orchVars, workVars, planVars, calcVars, fleetVars,
                  saveVars, authVars, procVars, retryVars>>
otherThanPlan == <<lockVars, orchVars, workVars, catVars, calcVars, fleetVars,
                  saveVars, authVars, procVars, retryVars>>
otherThanCalc == <<lockVars, orchVars, workVars, catVars, planVars, fleetVars,
                  saveVars, authVars, procVars, retryVars>>
otherThanFleet == <<lockVars, orchVars, workVars, catVars, planVars, calcVars,
                  saveVars, authVars, procVars, retryVars>>
otherThanSave == <<lockVars, orchVars, workVars, catVars, planVars, calcVars,
                   fleetVars, authVars, procVars, retryVars>>
otherThanAuth == <<lockVars, orchVars, workVars, catVars, planVars, calcVars,
                   fleetVars, saveVars, procVars, retryVars>>
otherThanProc == <<lockVars, orchVars, workVars, catVars, planVars, calcVars,
                   fleetVars, saveVars, authVars, retryVars>>
otherThanRetry == <<lockVars, orchVars, workVars, catVars, planVars,
                    calcVars, fleetVars, saveVars, authVars, procVars>>

-----------------------------------------------------------------------------
(* Bounds of the model *)

MaxRetries == 2     \* largest max_retries argument tried
MaxTime == 4        \* the clock saturates here
OrchMaxRetries == 2 \* largest max_retries of the orchestrator tried
MaxRuns == 4        \* worker.run() calls modelled within one _run_once
MaxTicks == 2       \* schedule-loop iterations modelled per thread
MaxDays == 1        \* days a worker.run() of the ORCH part finishes
MaxThreshold == 1   \* largest redownload_threshold tried
MaxProducts == 2    \* largest number of products or files per day
MaxPosts == 3       \* registrations sent by one register_stac_item call

(* The processes sharing the store, the resource keys, the ttl arguments
   (in clock units) and the sleep of acquire_lock: 0.5 + random.random()
   seconds lies in [0.5, 1.5), which is 1 or 2 clock units begun. *)
Procs == {1, 2}
Keys == {"last_downloaded_day.json", "items_missing_usgs_stac.json"}
TTLs == {1, 2}
SleepUnits == {1, 2}

Min(a, b) == IF a < b THEN a ELSE b

-----------------------------------------------------------------------------
(* LOCK part: Storage.locked, acquire_lock, release_lock *)

get_lock_file_name(remote_file_path) == <<remote_file_path, ".lock">>

LockNames == {get_lock_file_name(k) : k \in Keys}

\* uuid.uuid4(): one call of acquire_lock per process, so the process number
\* stands for its fresh uuid; 0 is the uuid of a record left by an earlier owner.
uuid4(p) == p

LockRecord(u, t, l) == [uuid |-> u, timestamp |-> t, ttl |-> l]

NoExc == [type |-> "none", file |-> <<>>]
StorageCannotAcquireLock(f) == [type |-> "StorageCannotAcquireLock", file |-> f]
ClientError(f) == [type |-> "ClientError", file |-> f]

Expired_AtTtl(rec, t) == (t - rec.timestamp) >= rec.ttl

\* storage.py:101  (time.time() - lock_timestamp) > lock_ttl
Expired(rec, t) == (t - rec.timestamp) > rec.ttl

LoopPc_OneMore(a, m) == IF a <= m THEN "exists" ELSE "exhausted"

\* storage.py:60  for attempt in range(max_retries)
LoopPc(a, m) == IF a < m THEN "exists" ELSE "exhausted"

FinallyPc_NoFinally(id, raised) ==
    IF id # <<>> /\ ~raised THEN "rel_read" ELSE "done"

\* storage.py:48-49  finally: if lock_id: release_lock(...)
FinallyPc(id, raised) == IF id # <<>> THEN "rel_read" ELSE "done"

lname(p) == get_lock_file_name(key[p])

\* What a delete removed: the record in the store at that moment (<<>> when
\* the object was already gone), its age then, and the caller's attempt.
LogDelete(p, via) ==
    delLog' = delLog \cup
        {[by |-> p, via |-> via, attempt |-> attempt[p],
          rec |-> objects[lname(p)],
          age |-> IF objects[lname(p)] = <<>> THEN 0
                  ELSE now - objects[lname(p)][1].timestamp]}

\* locked() calls acquire_lock: storage.py:43-46, 56-60
Call(p) ==
    /\ pc[p] = "idle"
    /\ pc' = [pc EXCEPT ![p] = LoopPc(0, max_retries[p])]
    /\ staleAtCall' = [staleAtCall EXCEPT ![p] =
          objects[lname(p)] # <<>> /\ Expired(objects[lname(p)][1], now)]
    /\ attempt' = [attempt EXCEPT ![p] = 0]
    /\ UNCHANGED <<otherThanLock, now, objects, key, max_retries, ttl, stamp,
                   content,
                   lock_id, exc, bodyRan, relTried, sleeps, delLog>>

\* storage.py:61  if not self.exists(lock_file_name)
Exists(p) ==
    /\ pc[p] = "exists"
    /\ pc' = [pc EXCEPT ![p] =
                 IF objects[lname(p)] = <<>> THEN "create" ELSE "read"]
    /\ UNCHANGED <<otherThanLock, now, objects, key, max_retries, ttl,
                   attempt, stamp, content,
                   lock_id, exc, bodyRan, relTried, sleeps, staleAtCall, delLog>>

\* storage.py:63-75  json.dump({uuid, timestamp: time.time(), ttl}, tmp_lock)
Create(p) ==
    /\ pc[p] = "create"
    /\ stamp' = [stamp EXCEPT ![p] = now]
    /\ pc' = [pc EXCEPT ![p] = "upload"]
    /\ UNCHANGED <<otherThanLock, now, objects, key, max_retries, ttl,
                   attempt, content,
                   lock_id, exc, bodyRan, relTried, sleeps, staleAtCall, delLog>>

\* storage.py:77  self.upload(lock_file_name, tmp_lock.name)
Upload(p) ==
    /\ pc[p] = "upload"
    /\ objects' = [objects EXCEPT ![lname(p)] =
                      <<LockRecord(uuid4(p), stamp[p], ttl[p])>>]
    /\ stamp' = [stamp EXCEPT ![p] = 0]
    /\ pc' = [pc EXCEPT ![p] = "verify"]
    /\ UNCHANGED <<otherThanLock, now, key, max_retries, ttl, attempt, content,
                   lock_id, exc, bodyRan, relTried, sleeps, staleAtCall, delLog>>

\* storage.py:79-89  read the object back; return the id when the uuid matches.
\* s3.py:79-84: the download of a missing key raises ClientError, which leaves
\* acquire_lock and, in locked(), skips the body (lock_id is still None).
Verify(p) ==
    /\ pc[p] = "verify"
    /\ IF objects[lname(p)] = <<>>
       THEN /\ exc' = [exc EXCEPT ![p] = ClientError(lname(p))]
            /\ pc' = [pc EXCEPT ![p] = FinallyPc(lock_id[p], TRUE)]
            /\ UNCHANGED lock_id
       ELSE /\ IF objects[lname(p)][1].uuid = uuid4(p)
               THEN /\ lock_id' = [lock_id EXCEPT ![p] = <<uuid4(p)>>]
                    /\ pc' = [pc EXCEPT ![p] = "held"]
               ELSE /\ pc' = [pc EXCEPT ![p] = "sleep"]
                    /\ UNCHANGED lock_id
            /\ UNCHANGED exc
    /\ UNCHANGED <<otherThanLock, now, objects, key, max_retries, ttl,
                   attempt, stamp, content,
                   bodyRan, relTried, sleeps, staleAtCall, delLog>>

\* storage.py:92-96  the lock object exists: download and parse it
Read(p) ==
    /\ pc[p] = "read"
    /\ IF objects[lname(p)] = <<>>
       THEN /\ exc' = [exc EXCEPT ![p] = ClientError(lname(p))]
            /\ pc' = [pc EXCEPT ![p] = FinallyPc(lock_id[p], TRUE)]
            /\ UNCHANGED content
       ELSE /\ content' = [content EXCEPT ![p] = objects[lname(p)]]
            /\ pc' = [pc EXCEPT ![p] = "check"]
            /\ UNCHANGED exc
    /\ UNCHANGED <<otherThanLock, now, objects, key, max_retries, ttl,
                   attempt, stamp,
                   lock_id, bodyRan, relTried, sleeps, staleAtCall, delLog>>

\* storage.py:98-101  if (time.time() - lock_timestamp) > lock_ttl
Check(p) ==
    /\ pc[p] = "check"
    /\ pc' = [pc EXCEPT ![p] =
                 IF Expired(content[p][1], now) THEN "expdel" ELSE "sleep"]
    /\ content' = [content EXCEPT ![p] = <<>>]
    /\ UNCHANGED <<otherThanLock, now, objects, key, max_retries, ttl,
                   attempt, stamp,
                   lock_id, exc, bodyRan, relTried, sleeps, staleAtCall, delLog>>

\* storage.py:105  self.delete(lock_file_name); s3.py:95 delete_object does
\* not fail on a missing key
ExpiryDelete(p) ==
    /\ pc[p] = "expdel"
    /\ LogDelete(p, "expiry")
    /\ objects' = [objects EXCEPT ![lname(p)] = <<>>]
    /\ pc' = [pc EXCEPT ![p] = "sleep"]
    /\ UNCHANGED <<otherThanLock, now, key, max_retries, ttl, attempt, stamp,
                   content,
                   lock_id, exc, bodyRan, relTried, sleeps, staleAtCall>>

\* storage.py:111  time.sleep(0.5 + random.random()), then the next iteration
Sleep(p) ==
    /\ pc[p] = "sleep"
    /\ \E d \in SleepUnits : now' = Min(now + d, MaxTime)
    /\ sleeps' = [sleeps EXCEPT ![p] = @ + 1]
    /\ attempt' = [attempt EXCEPT ![p] = @ + 1]
    /\ pc' = [pc EXCEPT ![p] = LoopPc(attempt[p] + 1, max_retries[p])]
    /\ UNCHANGED <<otherThanLock, objects, key, max_retries, ttl, stamp,
                   content,
                   lock_id, exc, bodyRan, relTried, staleAtCall, delLog>>

\* storage.py:113  raise StorageCannotAcquireLock(file=lock_file_name)
RaiseCannotAcquire(p) ==
    /\ pc[p] = "exhausted"
    /\ exc' = [exc EXCEPT ![p] = StorageCannotAcquireLock(lname(p))]
    /\ pc' = [pc EXCEPT ![p] = FinallyPc(lock_id[p], TRUE)]
    /\ UNCHANGED <<otherThanLock, now, objects, key, max_retries, ttl,
                   attempt, stamp, content,
                   lock_id, bodyRan, relTried, sleeps, staleAtCall, delLog>>

\* storage.py:47  yield: the with-body runs and returns or raises
Body(p) ==
    /\ pc[p] = "held"
    /\ bodyRan' = [bodyRan EXCEPT ![p] = TRUE]
    /\ \E raised \in BOOLEAN :
        /\ exc' = [exc EXCEPT ![p] =
                      IF raised THEN [type |-> "BodyError", file |-> <<>>]
                      ELSE NoExc]
        /\ pc' = [pc EXCEPT ![p] = FinallyPc(lock_id[p], raised)]
    /\ UNCHANGED <<otherThanLock, now, objects, key, max_retries, ttl,
                   attempt, stamp, content,
                   lock_id, relTried, sleeps, staleAtCall, delLog>>

\* storage.py:115-123  release_lock: download the record, compare the uuid.
\* A missing lock object makes download raise; locked() logs and re-raises it.
ReleaseRead(p) ==
    /\ pc[p] = "rel_read"
    /\ relTried' = [relTried EXCEPT ![p] = @ \cup {lock_id[p][1]}]
    /\ IF objects[lname(p)] = <<>>
       THEN /\ exc' = [exc EXCEPT ![p] = ClientError(lname(p))]
            /\ pc' = [pc EXCEPT ![p] = "done"]
       ELSE /\ pc' = [pc EXCEPT ![p] =
                  IF objects[lname(p)][1].uuid = lock_id[p][1]
                  THEN "rel_del" ELSE "done"]
            /\ UNCHANGED exc
    /\ UNCHANGED <<otherThanLock, now, objects, key, max_retries, ttl,
                   attempt, stamp, content,
                   lock_id, bodyRan, sleeps, staleAtCall, delLog>>

\* storage.py:124  self.delete(lock_file_name)
ReleaseDelete(p) ==
    /\ pc[p] = "rel_del"
    /\ LogDelete(p, "release")
    /\ objects' = [objects EXCEPT ![lname(p)] = <<>>]
    /\ pc' = [pc EXCEPT ![p] = "done"]
    /\ UNCHANGED <<otherThanLock, now, key, max_retries, ttl, attempt, stamp,
                   content,
                   lock_id, exc, bodyRan, relTried, sleeps, staleAtCall>>

\* Time passes between any two steps (I/O latency, the with-body).
Tick ==
    /\ now < MaxTime
    /\ now' = now + 1
    /\ UNCHANGED <<otherThanLock, objects, pc, key, max_retries, ttl,
                   attempt, stamp, content,
                   lock_id, exc, bodyRan, relTried, sleeps, staleAtCall, delLog>>

ProcStep(p) ==
    \/ Call(p) \/ Exists(p) \/ Create(p) \/ Upload(p) \/ Verify(p)
    \/ Read(p) \/ Check(p) \/ ExpiryDelete(p) \/ Sleep(p)
    \/ RaiseCannotAcquire(p) \/ Body(p) \/ ReleaseRead(p) \/ ReleaseDelete(p)

\* The calls: every process calls locked() on the same resource key, each with
\* its own max_retries and ttl. The store before the calls: no lock object, or
\* the record of an earlier owner (uuid 0) written at time 0, which expires
\* as the clock advances.
LockCalls ==
    /\ now = 0
    /\ \E l \in TTLs, k \in Keys :
        objects \in {[n \in LockNames |-> <<>>],
                     [n \in LockNames |->
                        IF n = get_lock_file_name(k)
                        THEN <<LockRecord(0, 0, l)>> ELSE <<>>]}
    /\ pc = [p \in Procs |-> "idle"]
    /\ \E k \in Keys : key = [p \in Procs |-> k]
    /\ max_retries \in [Procs -> 0..MaxRetries]
    /\ ttl \in [Procs -> TTLs]
    /\ attempt = [p \in Procs |-> 0]
    /\ stamp = [p \in Procs |-> 0]
    /\ content = [p \in Procs |-> <<>>]
    /\ lock_id = [p \in Procs |-> <<>>]
    /\ exc = [p \in Procs |-> NoExc]
    /\ bodyRan = [p \in Procs |-> FALSE]
    /\ relTried = [p \in Procs |-> {}]
    /\ sleeps = [p \in Procs |-> 0]
    /\ staleAtCall = [p \in Procs |-> FALSE]
    /\ delLog = {}

\* The LOCK part at rest, for the specifications of the other parts.
LockIdle ==
    /\ LockCalls
    /\ objects = [n \in LockNames |-> <<>>]
    /\ key = [p \in Procs |-> "last_downloaded_day.json"]
    /\ max_retries = [p \in Procs |-> 0]
    /\ ttl = [p \in Procs |-> 1]

\* The ORCH part at rest, for the specifications of the other parts.
OrchIdle ==
    /\ olock = 0
    /\ o_max_retries = 0
    /\ run_attempt = 0
    /\ opc = <<>>
    /\ ticks = <<>>
    /\ runs = <<>>
    /\ failed = <<>>
    /\ sinceReset = 0
    /\ reported = <<>>
    /\ delay = <<>>
    /\ idleSkip = FALSE

\* The WORK part at rest, for the specifications of the other parts.
WorkIdle ==
    /\ wpc = "idle"
    /\ w_kind = "cds"
    /\ w_today = 0
    /\ w_thr = <<>>
    /\ w_recat = "unset"
    /\ w_nprod = 0
    /\ markerFile = <<>>
    /\ plan = <<>>
    /\ idx = 0
    /\ prod = 0
    /\ assets = 0
    /\ dayLog = {}
    /\ w_lock = FALSE
    /\ contents = <<>>
    /\ wlog = <<>>
    /\ w_exc = "none"
    /\ startMarker = <<>>
    /\ uploads = <<>>
    /\ itemsFile = <<>>
    /\ i_data = {}
    /\ i_lock = FALSE

\* The CAT and PLAN parts at rest, for the specifications of the other parts.
CatIdle ==
    /\ c_pc = "idle"
    /\ c_item = ""
    /\ c_log = <<>>
    /\ c_target = <<>>
    /\ c_ret = <<>>

PlanIdle ==
    /\ pl_pc = "idle"
    /\ pl_args = <<>>
    /\ pl_days = <<>>

CalcIdle ==
    /\ f_pc = "idle"
    /\ f_in = <<>>
    /\ f_out = <<>>

FleetIdle ==
    /\ fl_pc = "idle"
    /\ fl_state = <<>>
    /\ fl_ticks = <<>>
    /\ fl_seen = {}
    /\ fl_log = <<>>

SaveIdle ==
    /\ sv_pc = <<>>
    /\ sv_data = <<>>
    /\ sv_file = <<>>
    /\ sv_lock = 0
    /\ sv_exc = <<>>

AuthIdle ==
    /\ a_kind = "none"
    /\ a_pc = "off"
    /\ a_now = 0
    /\ a_until = 0
    /\ a_token = <<>>
    /\ a_log = <<>>
    /\ a_exc = "none"

ProcIdle ==
    /\ pd_pc = "off"
    /\ pd_force = FALSE
    /\ pd_keys = {}
    /\ pd_k = 0
    /\ pd_checked = {}
    /\ pd_fetched = {}
    /\ pd_uploaded = {}
    /\ pd_assets = {}
    /\ pd_exc = "none"

RetryIdle ==
    /\ rr_pc = "off"
    /\ rr_max = 0
    /\ rr_retry = 0
    /\ rr_log = <<>>
    /\ rr_sleeps = <<>>
    /\ rr_ret = <<>>

LockInit ==
    /\ LockCalls
    /\ OrchIdle
    /\ WorkIdle
    /\ CatIdle
    /\ PlanIdle
    /\ CalcIdle
    /\ FleetIdle
    /\ RetryIdle
    /\ ProcIdle
    /\ AuthIdle
    /\ SaveIdle

Init == LockInit

\* Independent processes over one shared store.
LockNext == Tick \/ \E p \in Procs : ProcStep(p)

Spec == Init /\ [][LockNext]_vars

\* One process alone on the store (no competing process).
SoloNext == Tick \/ ProcStep(1)

SpecSolo == Init /\ [][SoloNext]_vars

\* The single process is scheduled: it is one sequential Python call.
SpecSoloFair == SpecSolo /\ WF_vars(ProcStep(1))

-----------------------------------------------------------------------------
(* LOCK part: the claims *)

Holding(p) == pc[p] = "held"
AcquireExited(p) == pc[p] \in {"held", "rel_read", "rel_del", "done"}
InAttempt(p) ==
    pc[p] \in {"exists", "create", "upload", "verify", "read", "check",
               "expdel", "sleep"}

\* No lock object was present initially: no record of the earlier owner is
\* in the store or was deleted from it.
InitiallyAbsent ==
    /\ \A n \in LockNames : objects[n] = <<>> \/ objects[n][1].uuid # 0
    /\ \A d \in delLog : d.rec = <<>> \/ d.rec[1].uuid # 0

\* C1: two acquire_lock calls on the same key over one shared store, no lock
\* object present initially and no TTL elapsing (the clock has not moved):
\* both calls never hold a returned id while neither has released.
C1_AtMostOneHolder ==
    (InitiallyAbsent /\ now = 0 /\ delLog = {})
        => Cardinality({p \in Procs : Holding(p)}) <= 1

\* C2: release_lock never removes a lock record whose uuid belongs to a
\* different owner, under any interleaving with other processes' steps.
C2_ReleaseDeletesOwnOnly ==
    \A d \in delLog :
        d.via = "release" => (d.rec = <<>> \/ d.rec[1].uuid = uuid4(d.by))

\* C3: with an expired record in the store when acquire_lock begins,
\* max_retries >= 2 and no competing process, the call deletes the stale
\* record on its first attempt and returns its own id on the second; and
\* acquire_lock never deletes a record with now - timestamp <= ttl.
C3_ExpiryRecovery ==
    /\ \A p \in Procs :
          (staleAtCall[p] /\ max_retries[p] >= 2 /\ AcquireExited(p)) =>
              /\ lock_id[p] = <<uuid4(p)>>
              /\ attempt[p] = 1
              /\ \E d \in delLog :
                    /\ d.by = p /\ d.via = "expiry" /\ d.attempt = 0
                    /\ d.rec # <<>> /\ d.rec[1].uuid = 0
    /\ \A d \in delLog :
          d.via = "expiry" => (d.rec # <<>> /\ d.age > d.rec[1].ttl)

C3_Witness ==
    /\ staleAtCall[1] /\ max_retries[1] >= 2 /\ Holding(1)
    /\ objects[lname(1)] # <<>> /\ objects[lname(1)][1].uuid = uuid4(1)

\* C4: locked(key): every exit of the body (return or exception) is followed
\* by release_lock with the acquired id, and with no other process the lock
\* object is gone when the with-block has ended; when acquire_lock fails the
\* body is never run and no release is attempted.
C4_ScopedRelease ==
    \A p \in Procs :
        /\ bodyRan[p] => lock_id[p] = <<uuid4(p)>>
        /\ (bodyRan[p] /\ pc[p] \in {"rel_del", "done"}) =>
              relTried[p] = {lock_id[p][1]}
        /\ (pc[p] = "done" /\ lock_id[p] # <<>>) =>
              (bodyRan[p] /\ objects[lname(p)] = <<>>)
        /\ (pc[p] = "done" /\ lock_id[p] = <<>>) =>
              (~bodyRan[p] /\ relTried[p] = {} /\ exc[p] # NoExc)

C4_Witness ==
    /\ pc[1] = "done" /\ bodyRan[1] /\ exc[1].type = "BodyError"
    /\ relTried[1] = {uuid4(1)} /\ objects[lname(1)] = <<>>

\* C5: acquire_lock terminates; it makes at most max_retries attempts, sleeps
\* once after each unsuccessful one, and when no attempt succeeds (max_retries
\* = 0 included) it raises StorageCannotAcquireLock naming the key's lock file.
C5_Bounded ==
    \A p \in Procs :
        /\ InAttempt(p) => attempt[p] < max_retries[p]
        /\ attempt[p] <= max_retries[p]
        /\ sleeps[p] = attempt[p]
        /\ (AcquireExited(p) /\ lock_id[p] = <<>>) =>
              /\ exc[p] = StorageCannotAcquireLock(<<key[p], ".lock">>)
              /\ sleeps[p] = max_retries[p]

-----------------------------------------------------------------------------
(* ORCH part: DatasetOrchestrator._run_scheduled, _run_once *)

\* The threads that are inside execute() of the same orchestrator. stac_dc.py
\* submits execute() once per orchestrator; a second caller is what the
\* non-blocking self._lock guards against.
Threads == {1, 2}

\* dataset_orchestrator.py:11
RETRY_DELAYS == <<600, 1800, 3600, 7200, 14400, 28800>>

\* Python's list indexing: a negative index counts from the end.
PyIndex(list, i) == IF i >= 0 THEN list[i + 1] ELSE list[Len(list) + i + 1]

\* A variant that indexes the table with the attempt and wraps around.
get_retry_delay_Wrap(a) ==
    PyIndex(RETRY_DELAYS, (a - 1) % Len(RETRY_DELAYS))

\* dataset_orchestrator.py:86-89
get_retry_delay(a) ==
    PyIndex(RETRY_DELAYS, Min(a - 1, Len(RETRY_DELAYS) - 1))

InRunOnce(t) ==
    opc[t] \in {"run_once", "loop", "running", "retry_sleep", "release",
               "release_exc"}

ReleasePc_NoFinally(raised) == IF raised THEN "dead" ELSE "release"

\* dataset_orchestrator.py:44-47  try: _run_once() finally: self._lock.release()
ReleasePc(raised) == IF raised THEN "release_exc" ELSE "release"

\* dataset_orchestrator.py:42-50  if self._lock.acquire(blocking=False)
TickStart(t) ==
    /\ opc[t] = "tick"
    /\ ticks' = [ticks EXCEPT ![t] = @ + 1]
    /\ IF olock = 0
       THEN /\ olock' = t
            /\ opc' = [opc EXCEPT ![t] = "run_once"]
            /\ UNCHANGED idleSkip
       ELSE /\ opc' = [opc EXCEPT ![t] = "sched_sleep"]
            /\ idleSkip' = (idleSkip \/ ~\E u \in Threads : InRunOnce(u))
            /\ UNCHANGED olock
    /\ UNCHANGED <<otherThanOrch, o_max_retries, run_attempt, runs, failed,
                   sinceReset,
                   reported, delay>>

\* dataset_orchestrator.py:63  self._worker.reset_run_attempt()
RunOnceStart(t) ==
    /\ opc[t] = "run_once"
    /\ run_attempt' = 0
    /\ sinceReset' = 0
    /\ runs' = [runs EXCEPT ![t] = 0]
    /\ failed' = [failed EXCEPT ![t] = 0]
    /\ reported' = [reported EXCEPT ![t] = "none"]
    /\ opc' = [opc EXCEPT ![t] = "loop"]
    /\ UNCHANGED <<otherThanOrch, olock, o_max_retries, ticks, delay, idleSkip>>

\* dataset_orchestrator.py:65-69  while get_run_attempt() < max_retries: run()
\* (no more than MaxRuns calls of worker.run() are modelled)
LoopCheck(t) ==
    /\ opc[t] = "loop"
    /\ IF run_attempt < o_max_retries
       THEN /\ runs[t] < MaxRuns
            /\ runs' = [runs EXCEPT ![t] = @ + 1]
            /\ opc' = [opc EXCEPT ![t] = "running"]
       ELSE /\ opc' = [opc EXCEPT ![t] = ReleasePc(FALSE)]
            /\ UNCHANGED runs
    /\ UNCHANGED <<otherThanOrch, olock, o_max_retries, run_attempt, ticks,
                   failed,
                   sinceReset, reported, delay, idleSkip>>

\* cds_worker.py:93, landsat_worker.py:158  a day is finished inside
\* worker.run(): self.reset_run_attempt()
RunDayDone(t) ==
    /\ opc[t] = "running"
    /\ run_attempt' = 0
    /\ sinceReset' = 0
    /\ UNCHANGED <<otherThanOrch, olock, o_max_retries, opc, ticks, runs,
                   failed, reported,
                   delay, idleSkip>>

\* dataset_orchestrator.py:70-72  worker.run() returned: _run_once returns
HandleReturn(t) ==
    /\ opc' = [opc EXCEPT ![t] = ReleasePc(FALSE)]
    /\ UNCHANGED <<olock, o_max_retries, run_attempt, ticks, runs, failed,
                   sinceReset, reported, delay, idleSkip>>

\* dataset_orchestrator.py:74-84  the except block of _run_once
HandleException(t) ==
    /\ failed' = [failed EXCEPT ![t] = @ + 1]
    /\ sinceReset' = sinceReset + 1
    /\ IF run_attempt >= o_max_retries
       THEN /\ reported' = [reported EXCEPT ![t] = "exiting"]
            /\ opc' = [opc EXCEPT ![t] = ReleasePc(FALSE)]
            /\ UNCHANGED delay
       ELSE /\ delay' = [delay EXCEPT ![t] = get_retry_delay(run_attempt)]
            /\ reported' = [reported EXCEPT ![t] = "retry"]
            /\ opc' = [opc EXCEPT ![t] = "retry_sleep"]
    /\ UNCHANGED <<olock, o_max_retries, run_attempt, ticks, runs, idleSkip>>

\* dataset_orchestrator.py:69-72  worker.run() returns: _run_once returns
RunReturn(t) ==
    /\ opc[t] = "running"
    /\ HandleReturn(t)
    /\ UNCHANGED otherThanOrch

\* dataset_orchestrator.py:74-84  worker.run() raises an Exception
RunRaise(t) ==
    /\ opc[t] = "running"
    /\ HandleException(t)
    /\ UNCHANGED otherThanOrch

\* dataset_orchestrator.py:74  "except Exception" does not catch a
\* BaseException (SystemExit, KeyboardInterrupt): it leaves _run_once
RunAbort(t) ==
    /\ opc[t] = "running"
    /\ opc' = [opc EXCEPT ![t] = ReleasePc(TRUE)]
    /\ UNCHANGED <<otherThanOrch, olock, o_max_retries, run_attempt, ticks,
                   runs, failed,
                   sinceReset, reported, delay, idleSkip>>

\* dataset_orchestrator.py:84  time.sleep(delay), then the while condition
RetrySleep(t) ==
    /\ opc[t] = "retry_sleep"
    /\ opc' = [opc EXCEPT ![t] = "loop"]
    /\ UNCHANGED <<otherThanOrch, olock, o_max_retries, run_attempt, ticks,
                   runs, failed,
                   sinceReset, reported, delay, idleSkip>>

\* dataset_orchestrator.py:46-47  finally: self._lock.release()
Release(t) ==
    /\ opc[t] \in {"release", "release_exc"}
    /\ olock' = 0
    /\ opc' = [opc EXCEPT ![t] =
                  IF opc[t] = "release" THEN "sched_sleep" ELSE "dead"]
    /\ UNCHANGED <<otherThanOrch, o_max_retries, run_attempt, ticks, runs,
                   failed,
                   sinceReset, reported, delay, idleSkip>>

\* dataset_orchestrator.py:52-60  sleep until the next scheduled time
SchedSleep(t) ==
    /\ opc[t] = "sched_sleep"
    /\ ticks[t] < MaxTicks
    /\ opc' = [opc EXCEPT ![t] = "tick"]
    /\ UNCHANGED <<otherThanOrch, olock, o_max_retries, run_attempt, ticks,
                   runs, failed,
                   sinceReset, reported, delay, idleSkip>>

ThreadStep(t) ==
    \/ TickStart(t) \/ RunOnceStart(t) \/ LoopCheck(t) \/ RunDayDone(t)
    \/ RunReturn(t) \/ RunRaise(t) \/ RunAbort(t) \/ RetrySleep(t)
    \/ Release(t) \/ SchedSleep(t)

\* dataset_orchestrator.py:15-24, dataset_worker.py:39
OrchInit ==
    /\ olock = 0
    /\ o_max_retries \in 0..OrchMaxRetries
    /\ run_attempt = 0
    /\ opc = [t \in Threads |-> "tick"]
    /\ ticks = [t \in Threads |-> 0]
    /\ runs = [t \in Threads |-> 0]
    /\ failed = [t \in Threads |-> 0]
    /\ sinceReset = 0
    /\ reported = [t \in Threads |-> "none"]
    /\ delay = [t \in Threads |-> 0]
    /\ idleSkip = FALSE
    /\ LockIdle
    /\ WorkIdle
    /\ CatIdle
    /\ PlanIdle
    /\ CalcIdle
    /\ FleetIdle
    /\ RetryIdle
    /\ ProcIdle
    /\ AuthIdle
    /\ SaveIdle

OrchNext == \E t \in Threads : ThreadStep(t)

SpecOrch == OrchInit /\ [][OrchNext]_vars

-----------------------------------------------------------------------------
(* ORCH part: the claims *)

\* C6: within one scheduled run _run_once never makes more than max_retries
\* attempts, and once max_retries attempts have failed it has reported the
\* failure as terminal instead of starting another attempt.
C6_BoundedAttempts ==
    \A t \in Threads :
        /\ runs[t] <= o_max_retries
        /\ (failed[t] >= o_max_retries /\ o_max_retries > 0) =>
              reported[t] = "exiting"

\* C7: RunAttempt equals the number of failed attempts since the last reset
\* (it increases by one on each failed worker.run() attempt) and stays in
\* 0..max_retries.
C7_RunAttemptCounts ==
    /\ run_attempt = sinceReset
    /\ 0 <= run_attempt /\ run_attempt <= o_max_retries

\* C8: at most one worker.run() is in flight; a thread is inside _run_once
\* only while it holds the mutex, the mutex is held only by a thread inside
\* _run_once (it is released after every exit, also by exception), and no
\* tick is skipped while no run is active.
C8_OneInFlight ==
    /\ Cardinality({t \in Threads : opc[t] = "running"}) <= 1
    /\ \A t \in Threads : InRunOnce(t) => olock = t
    /\ olock # 0 => InRunOnce(olock)
    /\ ~idleSkip

\* thread 2 skipped its tick (it began no run although max_retries > 0)
\* while the run of thread 1 is in flight
C8_Witness ==
    /\ o_max_retries > 0 /\ opc[1] = "running" /\ olock = 1
    /\ opc[2] = "sched_sleep" /\ ticks[2] = 1 /\ runs[2] = 0

-----------------------------------------------------------------------------
(* WORK part: dates and the day-range planner *)

\* A datetime.date is its day number (days since 1970-01-01): date +/-
\* timedelta(days=n) is integer arithmetic. "%Y-%m-%d" text is the triple
\* <<year, month, day>> of the proleptic Gregorian calendar.
days_from_civil(y, m, d) ==
    LET yy == IF m <= 2 THEN y - 1 ELSE y
        era == yy \div 400
        yoe == yy - era * 400
        mp == IF m > 2 THEN m - 3 ELSE m + 9
        doy == (153 * mp + 2) \div 5 + d - 1
        doe == yoe * 365 + yoe \div 4 - yoe \div 100 + doy
    IN  era * 146097 + doe - 719468

civil_from_days(z0) ==
    LET z == z0 + 719468
        era == z \div 146097
        doe == z - era * 146097
        yoe == (doe - doe \div 1460 + doe \div 36524 - doe \div 146096) \div 365
        doy == doe - (365 * yoe + yoe \div 4 - yoe \div 100)
        mp == (5 * doy + 2) \div 153
        d == doy - (153 * mp + 2) \div 5 + 1
        m == IF mp < 10 THEN mp + 3 ELSE mp - 9
        y == yoe + era * 400
    IN  <<IF m <= 2 THEN y + 1 ELSE y, m, d>>

\* dataset_worker.py:186  last_downloaded_day.strftime("%Y-%m-%d")
strftime(day) == civil_from_days(day)

\* dataset_worker.py:104-107  datetime.strptime(text, "%Y-%m-%d").date()
strptime(text) == days_from_civil(text[1], text[2], text[3])

Max(a, b) == IF a > b THEN a ELSE b

\* A Python dict as the sequence of its <<key, value>> items in insertion
\* order: days_map.get(d, default) and days_map[d] = f.
DictGet(m, d, default) ==
    IF \E i \in 1..Len(m) : m[i][1] = d
    THEN m[CHOOSE i \in 1..Len(m) : m[i][1] = d][2]
    ELSE default

DictSet(m, d, f) ==
    IF \E i \in 1..Len(m) : m[i][1] = d
    THEN LET i == CHOOSE j \in 1..Len(m) : m[j][1] = d
         IN  SubSeq(m, 1, i - 1) \o << <<d, f>> >> \o SubSeq(m, i + 1, Len(m))
    ELSE Append(m, <<d, f>>)

\* A variant whose middle interval stops one day short of the recent one.
intervals_GapBeforeRecent(today, last_downloaded, redownload_threshold, rd, tw) ==
    LET gap_days == Max(0, today - last_downloaded)
        redownload_anchor == today - 7 * redownload_threshold
    IN  << <<redownload_anchor - (gap_days + tw),
             redownload_anchor + tw, TRUE>>,
           <<last_downloaded + 1, today - rd - 1, FALSE>>,
           <<today - (rd - 1), today, TRUE>> >>

\* dataset_worker.py:139-158  the three (start, end, force) intervals; rd is
\* recent_days and tw is threshold_window
intervals(today, last_downloaded, redownload_threshold, rd, tw) ==
    LET gap_days == Max(0, today - last_downloaded)
        redownload_anchor == today - 7 * redownload_threshold
    IN  << <<redownload_anchor - (gap_days + tw),
             redownload_anchor + tw, TRUE>>,
           <<last_downloaded + 1, today - rd, FALSE>>,
           <<today - (rd - 1), today, TRUE>> >>

\* A variant that never looks at recatalogize_only.
AddDay_IgnoreRecat(m, d, force, today, recat) ==
    IF d <= today THEN DictSet(m, d, DictGet(m, d, FALSE) \/ force) ELSE m

\* A variant that keeps the days after today.
AddDay_NoCap(m, d, force, today, recat) ==
    DictSet(m, d, IF recat THEN FALSE ELSE (DictGet(m, d, FALSE) \/ force))

\* A variant where the flag of the last interval merged replaces the others.
AddDay_LastWins(m, d, force, today, recat) ==
    IF d <= today THEN DictSet(m, d, IF recat THEN FALSE ELSE force) ELSE m

\* dataset_worker.py:163-164  the body of the loop for one day d:
\*     if d <= today: days_map[d] = False if recatalogize_only
\*                                  else (days_map.get(d, False) or force)
AddDay(m, d, force, today, recat) ==
    IF d <= today
    THEN DictSet(m, d, IF recat THEN FALSE ELSE (DictGet(m, d, FALSE) \/ force))
    ELSE m

\* dataset_worker.py:130-133, 162-164  for d in daterange(start, end): the days
\* of [d, end] in ascending order, the first half of the range and then the
\* second; the comparison with <<>> has the map after the first half computed
\* before the second half starts
RECURSIVE AddRange(_, _, _, _, _, _)
AddRange(m, d, end, force, today, recat) ==
    IF d > end THEN m
    ELSE IF d = end THEN AddDay(m, d, force, today, recat)
    ELSE LET mid == (d + end) \div 2
             first == AddRange(m, d, mid, force, today, recat)
         IN  IF first = <<>>
             THEN AddRange(<<>>, mid + 1, end, force, today, recat)
             ELSE AddRange(first, mid + 1, end, force, today, recat)

\* dataset_worker.py:160-164  for start, end, force in intervals
days_map(today, last, thr, rd, tw, recat) ==
    LET iv == intervals(today, last, thr, rd, tw)
        m1 == AddRange(<<>>, iv[1][1], iv[1][2], iv[1][3], today, recat)
        m2 == AddRange(m1, iv[2][1], iv[2][2], iv[2][3], today, recat)
    IN  AddRange(m2, iv[3][1], iv[3][2], iv[3][3], today, recat)

\* A variant that leaves the items in the order of their insertion.
sorted_InsertionOrder(items) == items

\* dataset_worker.py:166  sorted(days_map.items()): the keys are distinct, so
\* the (date, bool) tuples are ordered by date; an item's place is the number
\* of items with an earlier date
sorted(items) ==
    LET n == Len(items)
        rank(j) == Cardinality({k \in 1..n : items[k][1] < items[j][1]})
    IN  [i \in 1..n |-> items[CHOOSE j \in 1..n : rank(j) = i - 1]]

get_days_to_download_unsorted(today, last, thr, rd, tw, recat) ==
    days_map(today, last, thr, rd, tw, recat)

\* dataset_worker.py:121-167, era5_worker.py:62-108
get_days_to_download(today, last, thr, rd, tw, recat) ==
    sorted(days_map(today, last, thr, rd, tw, recat))

\* landsat_worker.py:43-61  (last_downloaded_day is never None here)
landsat_get_days_to_download(today, last, thr) ==
    LET from0 == Max(last, today) - thr
        from_day == IF from0 > today THEN today ELSE from0
    IN  [i \in 1..(today - from_day + 1) |-> <<from_day + (i - 1), FALSE>>]

-----------------------------------------------------------------------------
(* WORK part: the marker file and one run of a worker *)

\* aoi.get_name() of the worker, and of another worker on the same dataset
OwnAOI == "czech_republic"
AOIs == {OwnAOI, "other"}

\* datetime.now(timezone.utc).date(): a day whose plans cross 2024-02-29
Todays == {days_from_civil(2024, 3, 5)}

\* env redownload_threshold as loaded (era5: weeks, int(os.getenv(..., "13")))
Era5Default == 13
Thresholds == (0..MaxThreshold) \cup {Era5Default}

\* the defaults of _get_days_to_download's parameters
recent_days == 10
threshold_window == 2

\* The JSON object of the marker file: AOI name -> <<>> (no key) or
\* <<text>>. The file itself is <<>> (no such object) or <<that map>>.
EmptyJson == [a \in AOIs |-> <<>>]

\* the marker entries the storage can hold when a run begins, as offsets of
\* the AOI's date from today
MarkerOffsets == {0 - 11, 0 - 1, 1}

MarkerFiles(today) ==
    {<<>>}
    \cup {<<[EmptyJson EXCEPT !["other"] = <<strftime(today - 1)>>]>>}
    \cup {<<[EmptyJson EXCEPT ![OwnAOI] = <<strftime(today + o)>>]>> :
             o \in MarkerOffsets}
    \cup {<<[EmptyJson EXCEPT ![OwnAOI] = <<strftime(today + o)>>,
                              !["other"] = <<strftime(today - 1)>>]>> :
             o \in MarkerOffsets}

\* dataset_worker.py:98-107  download, json.load(...)[aoi], strptime(...)
get_last_downloaded_day(file) ==
    IF file = <<>> THEN [exc |-> "ClientError", day |-> 0]
    ELSE IF file[1][OwnAOI] = <<>> THEN [exc |-> "KeyError", day |-> 0]
    ELSE [exc |-> "none", day |-> strptime(file[1][OwnAOI][1])]

\* cds_worker.py:72-74 with dataset_worker.py:121-167
CdsPlan(file, today, thr, recat) ==
    LET last == get_last_downloaded_day(file)
    IN  IF last.exc # "none" THEN [exc |-> last.exc, days |-> <<>>]
        ELSE IF recat = "unset" THEN [exc |-> "KeyError", days |-> <<>>]
        ELSE [exc |-> "none",
              days |-> get_days_to_download(today, last.day, thr[1],
                                            recent_days, threshold_window,
                                            recat = "true")]

\* landsat_worker.py:141-143 with landsat_worker.py:43-61
LandsatPlan(file, today, thr) ==
    LET last == get_last_downloaded_day(file)
    IN  IF thr = <<>> THEN [exc |-> "KeyError", days |-> <<>>]
        ELSE IF last.exc # "none" THEN [exc |-> last.exc, days |-> <<>>]
        ELSE [exc |-> "none",
              days |-> landsat_get_days_to_download(today, last.day, thr[1])]

\* the position after the planning: the first day, or past the loop
FirstPc(kind, days) ==
    IF kind = "landsat" THEN "l_items"
    ELSE IF days = <<>> THEN "returned" ELSE "p_get"

\* the positions of run() at which a step of the pipeline is pending
StepPcs == {"l_items", "p_get", "p_store", "c_store", "c_register",
            "l_search", "l_get", "l_missing", "i_acquire2", "l_register",
            "l_store_stac", "l_store_tar", "m_acquire", "l_rest"}
LockedPcs == {"m_download", "m_upload", "m_release", "i_download",
              "i_release1", "i_upload", "i_release2"}
RunningPcs == StepPcs \cup LockedPcs \cup {"start", "day_end"}

WorkStart ==
    /\ wpc = "start"
    /\ LET p == IF w_kind = "cds"
                THEN CdsPlan(markerFile, w_today, w_thr, w_recat)
                ELSE LandsatPlan(markerFile, w_today, w_thr)
       IN  /\ plan' = p.days
           /\ w_exc' = p.exc
           /\ wpc' = IF p.exc # "none" THEN "raised"
                     ELSE FirstPc(w_kind, p.days)
           /\ idx' = IF p.exc = "none" /\ p.days # <<>> THEN 1 ELSE 0
    /\ prod' = 1
    /\ UNCHANGED <<otherThanWork, itemsVars, uploads, w_kind, w_today, w_thr, w_recat, w_nprod,
                   markerFile, assets, dayLog, w_lock, contents, wlog,
                   startMarker>>

day == plan[idx][1]
force_redownload == plan[idx][2]

\* cds_worker.py:84-89  the step after _process_day returned for the day
StageAfterProducts_MarkerFirst(n) == "m_acquire"

StageAfterProducts_AlwaysRegister(n) == "c_store"

StageAfterProducts(n) == IF n > 0 THEN "c_store" ELSE "m_acquire"

\* cds_worker.py:106-107  the next product of the day, or the end of the loop
NextProduct(k, n) ==
    [wpc |-> IF k < w_nprod THEN "p_get" ELSE StageAfterProducts(n),
     prod |-> IF k < w_nprod THEN k + 1 ELSE 1,
     dayLog |-> IF k < w_nprod THEN dayLog ELSE dayLog \cup {"products"}]

\* cds_worker.py:112-126  exists() and not forced: the asset is recorded and
\* nothing is fetched; the API returns no file: nothing is stored; the API
\* returns a file: it is stored next
ProductGet ==
    /\ wpc = "p_get"
    /\ \E outcome \in {"exists", "nothing", "file"} :
          /\ outcome = "exists" => ~force_redownload
          /\ IF outcome = "file"
             THEN /\ wpc' = "p_store"
                  /\ UNCHANGED <<prod, assets, dayLog>>
             ELSE LET n == IF outcome = "exists" THEN assets + 1 ELSE assets
                      nx == NextProduct(prod, n)
                  IN  /\ wpc' = nx.wpc
                      /\ prod' = nx.prod
                      /\ dayLog' = nx.dayLog
                      /\ assets' = n
    /\ UNCHANGED <<otherThanWork, itemsVars, uploads, w_kind, w_today, w_thr, w_recat, w_nprod,
                   markerFile, plan, idx, w_lock, contents, wlog, w_exc,
                   startMarker>>

\* cds_worker.py:121-123, 131-136, 95-96  CDSWorkerDataNotAvailableYet leaves
\* _process_day and the for loop of run(); the handler of run() is after the
\* loop, so the position after it is the end of run()
NotAvailablePc_SkipProduct(k, n) == NextProduct(k, n).wpc

NotAvailablePc(k, n) == "returned"

\* cds_worker.py:121-123, 95-96  the data is not available yet: run() ends
\* the loop and returns
NotAvailableYet ==
    /\ wpc = "p_get"
    /\ wpc' = NotAvailablePc(prod, assets)
    /\ w_exc' = "CDSWorkerDataNotAvailableYet"
    /\ UNCHANGED <<otherThanWork, itemsVars, uploads, w_kind, w_today, w_thr, w_recat, w_nprod,
                   markerFile, plan, idx, prod, assets, dayLog, w_lock,
                   contents, wlog, startMarker>>

\* cds_worker.py:128-129  _save_to_storage, assets.append
ProductStore ==
    /\ wpc = "p_store"
    /\ LET nx == NextProduct(prod, assets + 1)
       IN  /\ wpc' = nx.wpc
           /\ prod' = nx.prod
           /\ dayLog' = nx.dayLog
    /\ assets' = assets + 1
    /\ UNCHANGED <<otherThanWork, itemsVars, uploads, w_kind, w_today, w_thr, w_recat, w_nprod,
                   markerFile, plan, idx, w_lock, contents, wlog, w_exc,
                   startMarker>>

\* cds_worker.py:160-161  the item's JSON is saved to the storage
CatalogueStore ==
    /\ wpc = "c_store"
    /\ wpc' = "c_register"
    /\ dayLog' = dayLog \cup {"item_stored"}
    /\ UNCHANGED <<otherThanWork, itemsVars, uploads, w_kind, w_today, w_thr, w_recat, w_nprod,
                   markerFile, plan, idx, prod, assets, w_lock, contents,
                   wlog, w_exc, startMarker>>

\* cds_worker.py:163  catalogue.register_item
CatalogueRegister ==
    /\ wpc = "c_register"
    /\ wpc' = "m_acquire"
    /\ dayLog' = dayLog \cup {"registered"}
    /\ UNCHANGED <<otherThanWork, itemsVars, uploads, w_kind, w_today, w_thr, w_recat, w_nprod,
                   markerFile, plan, idx, prod, assets, w_lock, contents,
                   wlog, w_exc, startMarker>>

\* landsat_worker.py:66-84, 145  _get_items_missing_usgs_stac: the list is
\* read under the lock of its file, then the day loop begins
ItemsMissing ==
    /\ wpc = "l_items"
    /\ itemsFile # <<>>
    /\ wpc' = IF plan = <<>> THEN "l_rest" ELSE "l_search"
    /\ UNCHANGED <<otherThanWork, w_kind, w_today, w_thr, w_recat, w_nprod,
                   markerFile, plan, idx, prod, assets, dayLog, w_lock,
                   contents, wlog, w_exc, startMarker, uploads, itemsFile,
                   i_data, i_lock>>

\* landsat_worker.py:70-80, s3.py:79-84  there is no such object: download
\* raises ClientError, which `except FileNotFoundError` does not catch
ItemsMissingAbsent ==
    /\ wpc = "l_items"
    /\ itemsFile = <<>>
    /\ w_exc' = "ClientError"
    /\ wpc' = "raised"
    /\ UNCHANGED <<otherThanWork, w_kind, w_today, w_thr, w_recat, w_nprod,
                   markerFile, plan, idx, prod, assets, dayLog, w_lock,
                   contents, wlog, startMarker, uploads, itemsFile, i_data,
                   i_lock>>

\* usgs_worker.py:24-26  search_by_daterange(day, day) and the first file
Search ==
    /\ wpc = "l_search"
    /\ wpc' = IF w_nprod = 0 THEN "m_acquire" ELSE "l_get"
    /\ prod' = 1
    /\ dayLog' = IF w_nprod = 0 THEN dayLog \cup {"products"} ELSE dayLog
    /\ UNCHANGED <<otherThanWork, itemsVars, uploads, w_kind, w_today, w_thr, w_recat, w_nprod,
                   markerFile, plan, idx, assets, w_lock, contents, wlog,
                   w_exc, startMarker>>

\* usgs_worker.py:26  the next file of the day, or the end of the loop
NextFile(k) ==
    [wpc |-> IF k < w_nprod THEN "l_get" ELSE "m_acquire",
     prod |-> IF k < w_nprod THEN k + 1 ELSE 1,
     dayLog |-> IF k < w_nprod THEN dayLog ELSE dayLog \cup {"products"}]

\* usgs_worker.py:33-43, 70-92, landsat_worker.py:168-176  download: None
\* when the stored tar has the remote size; else the tar is processed and
\* either carries its STAC item or is noted as missing one
FileGet ==
    /\ wpc = "l_get"
    /\ \E outcome \in {"skip", "pregenerated", "generated"} :
          IF outcome = "skip"
          THEN LET nx == NextFile(prod)
               IN  /\ ~force_redownload
                   /\ wpc' = nx.wpc
                   /\ prod' = nx.prod
                   /\ dayLog' = nx.dayLog
          ELSE /\ wpc' = IF outcome = "generated" THEN "l_missing"
                         ELSE "l_register"
               /\ UNCHANGED <<prod, dayLog>>
    /\ UNCHANGED <<otherThanWork, itemsVars, uploads, w_kind, w_today, w_thr, w_recat, w_nprod,
                   markerFile, plan, idx, assets, w_lock, contents, wlog,
                   w_exc, startMarker>>

\* usgs_worker.py:27, landsat_worker.py:176  the displayId of the file
display_id == <<day, prod>>

\* landsat_worker.py:95  with self._storage.locked(...): the first block
ItemsAcquire ==
    /\ wpc = "l_missing"
    /\ i_lock' = TRUE
    /\ wpc' = "i_download"
    /\ UNCHANGED <<otherThanWork, w_kind, w_today, w_thr, w_recat, w_nprod,
                   markerFile, plan, idx, prod, assets, dayLog, w_lock,
                   contents, wlog, w_exc, startMarker, uploads, itemsFile,
                   i_data>>

\* landsat_worker.py:99-112  the list is downloaded; with no such object the
\* download raises ClientError and the block is left through its release
ItemsDownload ==
    /\ wpc = "i_download"
    /\ IF itemsFile = <<>>
       THEN w_exc' = "ClientError" /\ UNCHANGED i_data
       ELSE i_data' = itemsFile[1] /\ UNCHANGED w_exc
    /\ wpc' = "i_release1"
    /\ UNCHANGED <<otherThanWork, w_kind, w_today, w_thr, w_recat, w_nprod,
                   markerFile, plan, idx, prod, assets, dayLog, w_lock,
                   contents, wlog, startMarker, uploads, itemsFile, i_lock>>

\* storage.py:48-54  the end of a locked() block: release_lock, whose
\* exception is logged and raised again
ItemsReleasePc(releaseFailed, after) ==
    IF releaseFailed \/ w_exc # "none" THEN "raised" ELSE after

\* landsat_worker.py:118-126  after the first block: the append, and the
\* second locked() block around the upload
AfterFirstBlock_NoSecondLock == "i_upload"

AfterFirstBlock == "i_acquire2"

\* landsat_worker.py:95, 114-116  the end of the first block
ItemsRelease1 ==
    /\ wpc = "i_release1"
    /\ \E released \in BOOLEAN :
          /\ i_lock' = ~released
          /\ wpc' = ItemsReleasePc(~released, AfterFirstBlock)
          /\ w_exc' = IF w_exc = "none" /\ ~released THEN "Exception"
                      ELSE w_exc
    /\ UNCHANGED <<otherThanWork, w_kind, w_today, w_thr, w_recat, w_nprod,
                   markerFile, plan, idx, prod, assets, dayLog, w_lock,
                   contents, wlog, startMarker, uploads, itemsFile, i_data>>

\* landsat_worker.py:118-126  display_id is appended to the local list
\* outside any lock, then the second locked() block is entered
ItemsAcquire2 ==
    /\ wpc = "i_acquire2"
    /\ i_data' = i_data \cup {display_id}
    /\ i_lock' = TRUE
    /\ wpc' = "i_upload"
    /\ UNCHANGED <<otherThanWork, w_kind, w_today, w_thr, w_recat, w_nprod,
                   markerFile, plan, idx, prod, assets, dayLog, w_lock,
                   contents, wlog, w_exc, startMarker, uploads, itemsFile>>

\* landsat_worker.py:127-130  storage.upload of the list
ItemsUpload ==
    /\ wpc = "i_upload"
    /\ itemsFile' = <<i_data>>
    /\ uploads' = Append(uploads, [file |-> "items", day |-> day,
                                    locked |-> i_lock])
    /\ wpc' = "i_release2"
    /\ UNCHANGED <<otherThanWork, w_kind, w_today, w_thr, w_recat, w_nprod,
                   markerFile, plan, idx, prod, assets, dayLog, w_lock,
                   contents, wlog, w_exc, startMarker, i_data, i_lock>>

\* landsat_worker.py:126-134  the upload raises: the block is left through
\* its release
ItemsUploadRaises ==
    /\ wpc = "i_upload"
    /\ w_exc' = "Exception"
    /\ wpc' = "i_release2"
    /\ UNCHANGED <<otherThanWork, w_kind, w_today, w_thr, w_recat, w_nprod,
                   markerFile, plan, idx, prod, assets, dayLog, w_lock,
                   contents, wlog, startMarker, uploads, itemsFile, i_data,
                   i_lock>>

\* landsat_worker.py:126, 132-136  the end of the second block
ItemsRelease2 ==
    /\ wpc = "i_release2"
    /\ \E released \in BOOLEAN :
          /\ i_lock' = ~released
          /\ wpc' = ItemsReleasePc(~released, "l_register")
          /\ w_exc' = IF w_exc = "none" /\ ~released THEN "Exception"
                      ELSE w_exc
    /\ dayLog' = IF w_exc = "none" THEN dayLog \cup {"missing_noted"}
                 ELSE dayLog
    /\ i_data' = {}
    /\ UNCHANGED <<otherThanWork, w_kind, w_today, w_thr, w_recat, w_nprod,
                   markerFile, plan, idx, prod, assets, w_lock, contents,
                   wlog, startMarker, uploads, itemsFile>>

\* landsat_worker.py:178-180  catalogue.register_item
FileRegister ==
    /\ wpc = "l_register"
    /\ wpc' = "l_store_stac"
    /\ dayLog' = dayLog \cup {"registered"}
    /\ UNCHANGED <<otherThanWork, itemsVars, uploads, w_kind, w_today, w_thr, w_recat, w_nprod,
                   markerFile, plan, idx, prod, assets, w_lock, contents,
                   wlog, w_exc, startMarker>>

\* landsat_worker.py:182-185  _save_to_storage of the STAC file
FileStoreStac ==
    /\ wpc = "l_store_stac"
    /\ wpc' = "l_store_tar"
    /\ dayLog' = dayLog \cup {"item_stored"}
    /\ UNCHANGED <<otherThanWork, itemsVars, uploads, w_kind, w_today, w_thr, w_recat, w_nprod,
                   markerFile, plan, idx, prod, assets, w_lock, contents,
                   wlog, w_exc, startMarker>>

\* landsat_worker.py:187-190  _save_to_storage of the tar, then the next file
FileStoreTar ==
    /\ wpc = "l_store_tar"
    /\ LET nx == NextFile(prod)
       IN  /\ wpc' = nx.wpc
           /\ prod' = nx.prod
           /\ dayLog' = nx.dayLog
    /\ assets' = assets + 1
    /\ UNCHANGED <<otherThanWork, itemsVars, uploads, w_kind, w_today, w_thr, w_recat, w_nprod,
                   markerFile, plan, idx, w_lock, contents, wlog, w_exc,
                   startMarker>>

\* landsat_worker.py:160-165  the items noted as missing, then run() returns
RestItems ==
    /\ wpc = "l_rest"
    /\ wpc' = "returned"
    /\ UNCHANGED <<otherThanWork, itemsVars, uploads, w_kind, w_today, w_thr, w_recat, w_nprod,
                   markerFile, plan, idx, prod, assets, dayLog, w_lock,
                   contents, wlog, w_exc, startMarker>>

\* The AOI's entry of the marker file: <<>> (no file, no key) or <<text>>
OwnEntry(file) == IF file = <<>> THEN <<>> ELSE file[1][OwnAOI]

\* storage.upload of a shared bookkeeping file, as run() does it: which file,
\* for which day, and whether the worker held the lock of the file
Uploaded(file) == [file |-> file, day |-> day, locked |-> w_lock]

\* dataset_worker.py:175  acquire_lock returned a lock id
MarkerAcquire ==
    /\ wpc = "m_acquire"
    /\ wpc' = "m_download"
    /\ w_lock' = TRUE
    /\ UNCHANGED <<otherThanWork, itemsVars, uploads, w_kind, w_today, w_thr, w_recat, w_nprod,
                   markerFile, plan, idx, prod, assets, dayLog, contents,
                   wlog, w_exc, startMarker>>

\* dataset_worker.py:179-186  the file's JSON, or {} on any exception, with
\* the AOI's key set to day.strftime("%Y-%m-%d")
MarkerDownload ==
    /\ wpc = "m_download"
    /\ \E ok \in BOOLEAN :
          /\ ok => markerFile # <<>>
          /\ contents' = <<[(IF ok THEN markerFile[1] ELSE EmptyJson)
                               EXCEPT ![OwnAOI] = <<strftime(day)>>]>>
    /\ wpc' = "m_upload"
    /\ UNCHANGED <<otherThanWork, itemsVars, uploads, w_kind, w_today, w_thr, w_recat, w_nprod,
                   markerFile, plan, idx, prod, assets, dayLog, w_lock,
                   wlog, w_exc, startMarker>>

\* dataset_worker.py:188-194  json.dump and storage.upload
MarkerUpload ==
    /\ wpc = "m_upload"
    /\ markerFile' = contents
    /\ contents' = <<>>
    /\ dayLog' = dayLog \cup {"marker"}
    /\ uploads' = Append(uploads, Uploaded("marker"))
    /\ wpc' = "m_release"
    /\ UNCHANGED <<otherThanWork, itemsVars, w_kind, w_today, w_thr, w_recat, w_nprod,
                   plan, idx, prod, assets, w_lock, wlog, w_exc,
                   startMarker>>

\* dataset_worker.py:194-198  the upload raises: the finally block runs
MarkerUploadRaises ==
    /\ wpc = "m_upload"
    /\ contents' = <<>>
    /\ w_exc' = "Exception"
    /\ wpc' = "m_release"
    /\ UNCHANGED <<otherThanWork, itemsVars, uploads, w_kind, w_today, w_thr, w_recat, w_nprod,
                   markerFile, plan, idx, prod, assets, dayLog, w_lock,
                   wlog, startMarker>>

\* dataset_worker.py:200-203  release_lock; its failure is only logged and
\* leaves the lock file behind
MarkerRelease ==
    /\ wpc = "m_release"
    /\ \E released \in BOOLEAN : w_lock' = ~released
    /\ dayLog' = dayLog \cup {"release"}
    /\ wpc' = IF w_exc # "none" THEN "raised" ELSE "day_end"
    /\ UNCHANGED <<otherThanWork, itemsVars, uploads, w_kind, w_today, w_thr, w_recat, w_nprod,
                   markerFile, plan, idx, prod, assets, contents, wlog,
                   w_exc, startMarker>>

\* cds_worker.py:91-93, landsat_worker.py:156-158  the day is finished; the
\* marker as _get_last_downloaded_day reads it now is noted in wlog
DayEnd ==
    /\ wpc = "day_end"
    /\ wlog' = Append(wlog, get_last_downloaded_day(markerFile).day)
    /\ idx' = IF idx < Len(plan) THEN idx + 1 ELSE idx
    /\ wpc' = IF idx < Len(plan)
              THEN (IF w_kind = "cds" THEN "p_get" ELSE "l_search")
              ELSE (IF w_kind = "cds" THEN "returned" ELSE "l_rest")
    /\ prod' = 1
    /\ assets' = IF idx < Len(plan) THEN 0 ELSE assets
    /\ dayLog' = IF idx < Len(plan) THEN {} ELSE dayLog
    /\ UNCHANGED <<otherThanWork, itemsVars, uploads, w_kind, w_today, w_thr, w_recat, w_nprod,
                   markerFile, plan, w_lock, contents, w_exc,
                   startMarker>>

\* dataset_worker.py:175-178  acquire_lock is called before the try block of
\* _set_last_downloaded_day: its exception skips the finally block
AcquireFailPc_InsideTry == "m_release"

AcquireFailPc == "raised"

\* A storage, catalogue or API call of the pending step raises (acquire_lock:
\* storage.py:113): nothing catches it, run() raises
StepRaises ==
    /\ wpc \in StepPcs
    /\ w_exc' = IF wpc = "m_acquire" THEN "StorageCannotAcquireLock"
                ELSE "Exception"
    /\ wpc' = IF wpc = "m_acquire" THEN AcquireFailPc ELSE "raised"
    /\ UNCHANGED <<otherThanWork, itemsVars, uploads, w_kind, w_today, w_thr, w_recat, w_nprod,
                   markerFile, plan, idx, prod, assets, dayLog, w_lock,
                   contents, wlog, startMarker>>

\* The process dies: no handler and no finally block runs
Crash ==
    /\ wpc \in RunningPcs \ {"start"}
    /\ wpc' = "crashed"
    /\ contents' = <<>>
    /\ UNCHANGED <<otherThanWork, itemsVars, uploads, w_kind, w_today, w_thr, w_recat, w_nprod,
                   markerFile, plan, idx, prod, assets, dayLog, w_lock,
                   wlog, w_exc, startMarker>>

\* dataset_worker.py:169-208 run by the worker of another AOI of the dataset,
\* between two updates of this worker
OtherWorkerSets ==
    /\ wpc \in StepPcs \cup {"day_end"}
    /\ ~w_lock
    /\ LET old == IF markerFile = <<>> THEN EmptyJson ELSE markerFile[1]
       IN  /\ old["other"] # <<strftime(w_today)>>
           /\ markerFile' = <<[old EXCEPT !["other"] = <<strftime(w_today)>>]>>
    /\ UNCHANGED <<otherThanWork, itemsVars, uploads, w_kind, w_today, w_thr, w_recat, w_nprod,
                   wpc, plan, idx, prod, assets, dayLog, w_lock, contents, wlog,
                   w_exc, startMarker>>

\* The worker, its configuration and the storage before run() is called
WorkConfig ==
    /\ w_kind \in {"cds", "landsat"}
    /\ w_today \in Todays
    /\ w_thr \in {<<>>} \cup {<<n>> : n \in Thresholds}
    /\ w_kind = "cds" => w_thr # <<>>
    /\ w_kind = "landsat" => w_thr # <<Era5Default>>
    /\ w_recat \in {"unset", "true", "false"}
    /\ w_kind = "landsat" => w_recat = "unset"
    /\ w_nprod \in 0..MaxProducts
    /\ markerFile \in MarkerFiles(w_today)
    /\ startMarker = OwnEntry(markerFile)
    /\ plan = <<>>
    /\ idx = 0
    /\ prod = 1
    /\ assets = 0
    /\ dayLog = {}
    /\ w_lock = FALSE
    /\ contents = <<>>
    /\ wlog = <<>>
    /\ w_exc = "none"
    /\ uploads = <<>>
    /\ itemsFile \in {<<>>, <<{}>>}
    /\ w_kind = "cds" => itemsFile = <<>>
    /\ i_data = {}
    /\ i_lock = FALSE

\* run() has just been called
WorkInit ==
    /\ wpc = "start"
    /\ WorkConfig
    /\ LockIdle
    /\ OrchIdle
    /\ CatIdle
    /\ PlanIdle
    /\ CalcIdle
    /\ FleetIdle
    /\ RetryIdle
    /\ ProcIdle
    /\ AuthIdle
    /\ SaveIdle

WorkNext ==
    \/ WorkStart
    \/ ProductGet
    \/ NotAvailableYet
    \/ ProductStore
    \/ CatalogueStore
    \/ CatalogueRegister
    \/ ItemsMissing
    \/ ItemsMissingAbsent
    \/ Search
    \/ FileGet
    \/ ItemsAcquire
    \/ ItemsDownload
    \/ ItemsRelease1
    \/ ItemsAcquire2
    \/ ItemsUpload
    \/ ItemsUploadRaises
    \/ ItemsRelease2
    \/ FileRegister
    \/ FileStoreStac
    \/ FileStoreTar
    \/ RestItems
    \/ MarkerAcquire
    \/ MarkerDownload
    \/ MarkerUpload
    \/ MarkerUploadRaises
    \/ MarkerRelease
    \/ DayEnd
    \/ StepRaises
    \/ Crash
    \/ OtherWorkerSets

SpecWork == WorkInit /\ [][WorkNext]_vars

-----------------------------------------------------------------------------
(* WORK part: claims *)

\* The text of day number d as the marker file holds it
MarkerOf(d) == <<strftime(d)>>

\* run() ended on an exception or the process died while the day plan[idx]
\* was being processed and its marker had not been written
AbortedInDay ==
    /\ wpc \in {"raised", "crashed"}
    /\ idx >= 1
    /\ "marker" \notin dayLog

\* The plan is in strictly ascending date order, and the days finished so
\* far are its first days, in that order
AscendingOrder ==
    /\ \A i \in 1..(Len(plan) - 1) : plan[i][1] < plan[i + 1][1]
    /\ Len(wlog) <= Len(plan)
    /\ \A i \in 1..Len(wlog) : wlog[i] = plan[i][1]

\* The marker of the day is written only when every product of the day has
\* been handled and, when the day has assets, its item has been stored and
\* registered
MarkerAfterSteps ==
    "marker" \in dayLog =>
        /\ "products" \in dayLog
        /\ assets > 0 => {"item_stored", "registered"} \subseteq dayLog

\* C9: within one run, the marker of the AOI read after each finished day is
\* never earlier than the one read after the day before, and the persisted
\* marker is never earlier than the last of these reads.
C9_MarkerMonotone ==
    /\ \A i \in 1..(Len(wlog) - 1) : wlog[i] <= wlog[i + 1]
    /\ wlog # <<>> =>
          /\ OwnEntry(markerFile) # <<>>
          /\ strptime(OwnEntry(markerFile)[1]) >= wlog[Len(wlog)]

C9_Witness ==
    /\ w_kind = "cds"
    /\ Len(wlog) >= 3
    /\ wlog[1] < wlog[2]
    /\ wlog[2] < wlog[3]
    /\ wpc = "m_release"
    /\ "marker" \in dayLog

\* C10 as stated: days are processed in strictly ascending order, the marker
\* of day d is written only after all store and catalogue steps of d, and
\* when the run aborts or the process dies while day d is being processed
\* the persisted marker is neither d nor any day planned after d.
C10_AsStated ==
    /\ AscendingOrder
    /\ MarkerAfterSteps
    /\ AbortedInDay =>
          \A k \in idx..Len(plan) : OwnEntry(markerFile) # MarkerOf(plan[k][1])

\* C10 amended: days are processed in strictly ascending order, the marker of
\* day d is written only after all store and catalogue steps of d, and when
\* the run aborts or the process dies while day d is being processed, before
\* the marker write of d, the run has written neither d nor any later day:
\* the persisted marker is the one found when the run began if d is the
\* first planned day, and the planned day before d otherwise.
C10_NoAdvancePastUnfinishedDay ==
    /\ AscendingOrder
    /\ MarkerAfterSteps
    /\ AbortedInDay =>
          OwnEntry(markerFile) = IF idx = 1 THEN startMarker
                                 ELSE MarkerOf(plan[idx - 1][1])

C10_Witness ==
    /\ AbortedInDay
    /\ idx >= 2
    /\ w_kind = "cds"
    /\ "item_stored" \in dayLog
    /\ "registered" \notin dayLog
    /\ startMarker # <<>>
    /\ strptime(startMarker[1]) > plan[idx][1]

\* The archive reported "not available yet" for product prod of day plan[idx]
NotAvailableSeen == w_exc = "CDSWorkerDataNotAvailableYet"

IsMarkerUpload(u) == u.file = "marker"
MarkerUploads == SelectSeq(uploads, IsMarkerUpload)

\* C12: every planned day whose processing completed had its marker written
\* exactly once, and the marker read after it is that day; a day without
\* assets is not registered in the catalogue and still gets its marker.
C12_MarkerOncePerDay ==
    /\ \A i \in 1..Len(wlog) :
          /\ wlog[i] = plan[i][1]
          /\ Cardinality({k \in 1..Len(MarkerUploads) :
                             MarkerUploads[k].day = plan[i][1]}) = 1
    /\ wpc = "day_end" =>
          /\ OwnEntry(markerFile) = MarkerOf(day)
          /\ Cardinality({k \in 1..Len(MarkerUploads) :
                             MarkerUploads[k].day = day}) = 1
          /\ assets = 0 => dayLog \cap {"item_stored", "registered"} = {}

C12_Witness ==
    /\ wpc = "day_end"
    /\ w_kind = "cds"
    /\ w_nprod >= 1
    /\ assets = 0
    /\ idx >= 2
    /\ Len(wlog) = idx - 1

-----------------------------------------------------------------------------
(* RUN: _run_once of the orchestrator calling run() of the worker *)

\* The configurations and storages tried under _run_once
RunInputs ==
    /\ w_nprod <= 1
    /\ w_thr \in {<<>>, <<0>>}
    /\ OwnEntry(markerFile) \in {<<>>, MarkerOf(w_today - 1)}

\* dataset_orchestrator.py:44-45  thread 1 holds the orchestrator's lock and
\* enters _run_once; the worker is not running
RunInit ==
    /\ wpc = "idle"
    /\ WorkConfig
    /\ RunInputs
    /\ LockIdle
    /\ CatIdle
    /\ PlanIdle
    /\ CalcIdle
    /\ FleetIdle
    /\ RetryIdle
    /\ ProcIdle
    /\ AuthIdle
    /\ SaveIdle
    /\ olock = 1
    /\ o_max_retries \in 0..OrchMaxRetries
    /\ run_attempt = 0
    /\ opc = [t \in Threads |-> IF t = 1 THEN "run_once" ELSE "sched_sleep"]
    /\ ticks = [t \in Threads |-> IF t = 1 THEN 1 ELSE 0]
    /\ runs = [t \in Threads |-> 0]
    /\ failed = [t \in Threads |-> 0]
    /\ sinceReset = 0
    /\ reported = [t \in Threads |-> "none"]
    /\ delay = [t \in Threads |-> 0]
    /\ idleSkip = FALSE

\* dataset_orchestrator.py:69  self._worker.run(**kwargs) is entered
WorkerCall ==
    /\ opc[1] = "running"
    /\ wpc = "idle"
    /\ wpc' = "start"
    /\ startMarker' = OwnEntry(markerFile)
    /\ w_exc' = "none"
    /\ UNCHANGED <<authVars, procVars, retryVars,
                   saveVars, lockVars, orchVars, catVars, planVars, calcVars, fleetVars,
                   itemsVars, w_kind,
                   w_today, w_thr,
                   w_recat, w_nprod, markerFile, plan, idx, prod, assets,
                   dayLog, w_lock, contents, wlog, uploads>>

\* The frame of run() is gone: its locals and the histories of the run
RunLocalsGone ==
    /\ wpc' = "idle"
    /\ plan' = <<>>
    /\ idx' = 0
    /\ prod' = 1
    /\ assets' = 0
    /\ dayLog' = {}
    /\ contents' = <<>>
    /\ wlog' = <<>>
    /\ uploads' = <<>>
    /\ startMarker' = <<>>
    /\ i_data' = {}
    /\ UNCHANGED <<authVars, procVars, retryVars,
                   saveVars, lockVars, catVars, planVars, calcVars, fleetVars, w_kind,
                   w_today, w_thr,
                   w_recat, w_nprod, markerFile, w_lock, w_exc, itemsFile,
                   i_lock>>

\* dataset_orchestrator.py:69-72  run() returned
WorkerReturned ==
    /\ opc[1] = "running"
    /\ wpc = "returned"
    /\ HandleReturn(1)
    /\ RunLocalsGone

\* dataset_orchestrator.py:69, 74-84  run() raised: the except block
WorkerRaised ==
    /\ opc[1] = "running"
    /\ wpc = "raised"
    /\ HandleException(1)
    /\ RunLocalsGone

RunNext ==
    \/ RunOnceStart(1)
    \/ LoopCheck(1)
    \/ RetrySleep(1)
    \/ Release(1)
    \/ WorkerCall
    \/ WorkerReturned
    \/ WorkerRaised
    \/ WorkNext

SpecRun == RunInit /\ [][RunNext]_vars

\* acquire_lock of the marker update raised StorageCannotAcquireLock and
\* run() has ended on it
AcquireFailed == wpc = "raised" /\ w_exc = "StorageCannotAcquireLock"

\* The except block of _run_once takes the exception of run() as a failed
\* attempt: it counts it and reports it, with the retry delay or as the last
HandledAsFailure ==
    /\ failed'[1] = failed[1] + 1
    /\ IF run_attempt >= o_max_retries
       THEN reported'[1] = "exiting" /\ opc'[1] = "release"
       ELSE /\ reported'[1] = "retry"
            /\ delay'[1] = get_retry_delay(run_attempt)
            /\ opc'[1] = "retry_sleep"

\* C13: when acquire_lock of the marker update raises
\* StorageCannotAcquireLock, the marker file is as it was before the update,
\* no release has been attempted, run() has ended on the exception, and the
\* next step is the except block of _run_once handling a failed attempt.
C13_AcquireFailureAborts ==
    /\ [](AcquireFailed =>
             /\ "marker" \notin dayLog
             /\ "release" \notin dayLog
             /\ contents = <<>>
             /\ OwnEntry(markerFile) = IF idx = 1 THEN startMarker
                                       ELSE MarkerOf(plan[idx - 1][1])
             /\ opc[1] = "running")
    /\ [][AcquireFailed => HandledAsFailure]_vars

C13_Witness ==
    /\ wpc = "idle"
    /\ w_exc = "StorageCannotAcquireLock"
    /\ opc[1] = "retry_sleep"
    /\ failed[1] = 2
    /\ OwnEntry(markerFile) # <<>>
    /\ strptime(OwnEntry(markerFile)[1]) > w_today - 3

\* C14: every upload of the marker file and of the items-missing list is
\* done while the worker holds the lock of that file: after its acquire_lock
\* returned and before its release_lock.
C14_UploadsUnderLock ==
    /\ \A k \in 1..Len(uploads) : uploads[k].locked
    /\ wpc = "m_upload" => w_lock
    /\ wpc = "i_upload" => i_lock

C14_Witness ==
    /\ \E k \in 1..Len(uploads) : uploads[k].file = "items"
    /\ \E k \in 1..Len(uploads) : uploads[k].file = "marker"
    /\ ~w_lock
    /\ ~i_lock

-----------------------------------------------------------------------------
(* CAT part: STAC.register_stac_item against a catalogue *)

\* feature ids, as the words they are in the catalogue's messages
FeatureIds == {"item-1", "item-2"}

\* What _send_request gives back: an httpx.Response, its JSON content as the
\* fields errors and featureId; status 0 stands for no response at all
\* (stac.py:128, _retry_request raises STACRequestTimeout)
Response(status, errors, fid) ==
    [status |-> status, errors |-> errors, featureId |-> fid]

\* An entry of content['errors']: its code and its message, as words
Error(code, id) == [code |-> code, error |-> <<"Feature", id, "exists">>]

PostResponses ==
    {Response(st, <<>>, "") : st \in {0, 409, 500}}
    \cup {Response(200, <<Error(409, id)>>, "") : id \in FeatureIds}
    \cup {Response(200, <<Error(400, id)>>, "") : id \in FeatureIds}
    \cup {Response(200, <<>>, f) : f \in FeatureIds}

DeleteResponses == {Response(st, <<>>, "") : st \in {0, 200, 404, 500}}

\* stac.py:180  if error['code'] == 409
IsConflict_Always(error) == TRUE

IsConflict(error) == error.code = 409

\* stac.py:181  error['error'].split(' ')[1]
conflict_id_FirstWord(error) == PyIndex(error.error, 0)

conflict_id(error) == PyIndex(error.error, 1)

IsPost(e) == e.method = "POST"
IsDelete(e) == e.method = "DELETE"
NumPosts == Len(SelectSeq(c_log, IsPost))
NumDeletes == Len(SelectSeq(c_log, IsDelete))

\* stac.py:128, 163-164, 173-174  the exception a response makes the code
\* raise before its content is read, "none" when it is a 200
StatusException(r) ==
    IF r.status = 0 THEN "STACRequestTimeout"
    ELSE IF r.status # 200 THEN "STACRequestNotOK"
    ELSE "none"

\* stac.py:166-187  one POST of register_stac_item and what follows from its
\* response
RegisterPost ==
    /\ c_pc = "post"
    /\ NumPosts < MaxPosts
    /\ \E r \in PostResponses :
          /\ c_log' = Append(c_log, [method |-> "POST", id |-> c_item,
                                     resp |-> r])
          /\ IF StatusException(r) # "none"
             THEN /\ c_pc' = "raised"
                  /\ c_ret' = StatusException(r)
                  /\ UNCHANGED c_target
             ELSE IF r.errors # <<>>
             THEN IF IsConflict(r.errors[1])
                  THEN /\ c_pc' = "delete"
                       /\ c_target' = <<conflict_id(r.errors[1])>>
                       /\ UNCHANGED c_ret
                  ELSE /\ c_pc' = "raised"
                       /\ c_ret' = "Exception"
                       /\ UNCHANGED c_target
             ELSE /\ c_pc' = "returned"
                  /\ c_ret' = <<r.featureId>>
                  /\ UNCHANGED c_target
    /\ UNCHANGED <<otherThanCat, c_item>>

\* A variant that gives up after the second registration.
AfterDelete_Bounded(posts) == IF posts < 2 THEN "post" ELSE "raised"

\* stac.py:182  return self.register_stac_item(json_string, dataset): the
\* call registers again whatever the number of registrations sent so far
AfterDelete(posts) == "post"

\* stac.py:159-164, 181-182  _delete_stac_item, then register_stac_item again
RegisterDelete ==
    /\ c_pc = "delete"
    /\ \E r \in DeleteResponses :
          /\ c_log' = Append(c_log, [method |-> "DELETE", id |-> c_target[1],
                                     resp |-> r])
          /\ IF StatusException(r) # "none"
             THEN c_pc' = "raised" /\ c_ret' = StatusException(r)
             ELSE c_pc' = AfterDelete(NumPosts) /\ UNCHANGED c_ret
    /\ c_target' = <<>>
    /\ UNCHANGED <<otherThanCat, c_item>>

\* stac.py:166-169  register_stac_item has been called
CatInit ==
    /\ c_pc = "post"
    /\ c_item \in FeatureIds
    /\ c_log = <<>>
    /\ c_target = <<>>
    /\ c_ret = <<>>
    /\ PlanIdle
    /\ CalcIdle
    /\ FleetIdle
    /\ RetryIdle
    /\ ProcIdle
    /\ AuthIdle
    /\ SaveIdle
    /\ LockIdle
    /\ OrchIdle
    /\ WorkIdle

CatNext == RegisterPost \/ RegisterDelete

SpecCat == CatInit /\ [][CatNext]_vars

\* The response reports a conflict: a 200 whose first error has code 409
ConflictResponse(r) ==
    r.status = 200 /\ r.errors # <<>> /\ r.errors[1].code = 409

\* The response reports success: a 200 without errors
SuccessResponse(r) == r.status = 200 /\ r.errors = <<>>

\* C15: when the first registration is answered by a conflict and the next
\* one by success, the call sent exactly one delete, for the id the conflict
\* names, between the two registrations, sent nothing else, and returns the
\* feature id of the second registration.
C15_ConflictThenSuccess ==
    (/\ NumPosts = 2
     /\ ConflictResponse(c_log[1].resp)
     /\ c_log[Len(c_log)].method = "POST"
     /\ SuccessResponse(c_log[Len(c_log)].resp))
    => /\ Len(c_log) = 3
       /\ c_log[2].method = "DELETE"
       /\ c_log[2].id = c_log[1].resp.errors[1].error[2]
       /\ c_pc = "returned"
       /\ c_ret = <<c_log[3].resp.featureId>>

C15_Witness ==
    /\ c_pc = "returned"
    /\ NumPosts = 2
    /\ NumDeletes = 1
    /\ c_log[2].id # c_item
    /\ c_ret # <<c_item>>

\* The request was answered by a failure that is no conflict
NonConflictFailure(e) ==
    IF e.method = "POST"
    THEN ~SuccessResponse(e.resp) /\ ~ConflictResponse(e.resp)
    ELSE e.resp.status # 200

\* C16: a registration answered by a status other than 200 or by an error
\* whose code is not 409, and a delete that fails, are the last request of
\* the call: no delete and no registration follows, and the call raises.
C16_FailureRaises ==
    \A k \in 1..Len(c_log) :
        NonConflictFailure(c_log[k]) =>
            /\ k = Len(c_log)
            /\ c_pc = "raised"
            /\ c_ret \in {"STACRequestNotOK", "STACRequestTimeout",
                          "Exception"}

C16_Witness ==
    /\ c_pc = "raised"
    /\ NumPosts = 1
    /\ NumDeletes = 1
    /\ c_ret = "STACRequestNotOK"

-----------------------------------------------------------------------------
(* PLAN part: _get_days_to_download as a function of its inputs *)

\* today, with 2024-06-10
PlanTodays == Todays \cup {days_from_civil(2024, 6, 10)}

\* the marker read, as an offset from today (1: a marker in the future)
PlanLastOffsets == {0 - 30, 0 - 11, 0 - 1, 0, 1}

PlanRecentDays == {0, 1, recent_days}
PlanWindows == {0, threshold_window}

PlanArgs ==
    [today : PlanTodays, off : PlanLastOffsets, thr : Thresholds,
     rd : PlanRecentDays, tw : PlanWindows, recat : BOOLEAN]

\* dataset_worker.py:121-128  the call and its arguments
PlanInit ==
    /\ pl_pc = "call"
    /\ pl_args \in PlanArgs
    /\ pl_days = <<>>
    /\ LockIdle
    /\ OrchIdle
    /\ WorkIdle
    /\ CatIdle
    /\ CalcIdle
    /\ FleetIdle
    /\ RetryIdle
    /\ ProcIdle
    /\ AuthIdle
    /\ SaveIdle

\* dataset_worker.py:121-167  the list is computed and returned
PlanCall ==
    /\ pl_pc = "call"
    /\ pl_days' = get_days_to_download(pl_args.today,
                                       pl_args.today + pl_args.off,
                                       pl_args.thr, pl_args.rd, pl_args.tw,
                                       pl_args.recat)
    /\ pl_pc' = "done"
    /\ UNCHANGED <<otherThanPlan, pl_args>>

PlanNext == PlanCall

SpecPlan == PlanInit /\ [][PlanNext]_vars

PlanToday == pl_args.today
PlanLast == pl_args.today + pl_args.off

\* the dates of the list returned, and the entries of one date
PlanDates == {pl_days[i][1] : i \in 1..Len(pl_days)}
EntriesOf(d) == {i \in 1..Len(pl_days) : pl_days[i][1] = d}

PlanDone == pl_pc = "done"

\* the planner's example: the marker 30 days back, 13 weeks, 10 recent days and
\* a window of 2
C17_Case ==
    /\ PlanDone
    /\ pl_args.off = 0 - 30
    /\ pl_args.thr = Era5Default
    /\ pl_args.rd = recent_days
    /\ pl_args.tw = threshold_window

\* C17 as stated: in the example every day of the closed range
\* [today-30, today] is in the plan exactly once.
C17_AsStated ==
    C17_Case => \A d \in PlanLast..PlanToday : Cardinality(EntriesOf(d)) = 1

\* C17: in the example every day of [today-29, today] is in the plan exactly
\* once, the day of the marker itself (today-30) is not in the plan, and no
\* date of the plan occurs twice.
C17_CoversDaysAfterMarker ==
    C17_Case =>
        /\ \A d \in (PlanLast + 1)..PlanToday : Cardinality(EntriesOf(d)) = 1
        /\ EntriesOf(PlanLast) = {}
        /\ \A d \in PlanDates : Cardinality(EntriesOf(d)) = 1

\* the example's plan: 35 days around today - 13 weeks and the 30 days that
\* end today
C17_Witness ==
    /\ C17_Case
    /\ Len(pl_days) = 65
    /\ PlanToday \in PlanDates
    /\ (PlanLast + 1) \in PlanDates

\* the three intervals in the words of the planner's contract
InRecent(d) == PlanToday - pl_args.rd < d /\ d <= PlanToday
InMiddle(d) == PlanLast < d /\ d <= PlanToday - pl_args.rd
InRedownload(d) ==
    LET anchor == PlanToday - 7 * pl_args.thr
        gap == Max(0, PlanToday - PlanLast)
    IN  anchor - pl_args.tw - gap <= d /\ d <= anchor + pl_args.tw

UntouchedMiddle(d) == InMiddle(d) /\ ~InRecent(d) /\ ~InRedownload(d)

\* every entry of the plan dated d carries the flag f, and there is one
FlagOf(d, f) ==
    /\ EntriesOf(d) # {}
    /\ \A i \in EntriesOf(d) : pl_days[i][2] = f

\* C18: when recatalogizeOnly is false every day of the last recentDays days up
\* to today is planned with forceRedownload = true and every day of the middle
\* interval that no other interval touches is planned with forceRedownload =
\* false; when recatalogizeOnly is true every entry has forceRedownload = false.
C18_ForceFlags ==
    PlanDone =>
        IF pl_args.recat
        THEN \A i \in 1..Len(pl_days) : pl_days[i][2] = FALSE
        ELSE /\ \A d \in (PlanToday - pl_args.rd + 1)..PlanToday : FlagOf(d, TRUE)
             /\ \A d \in (PlanLast + 1)..(PlanToday - pl_args.rd) :
                    UntouchedMiddle(d) => FlagOf(d, FALSE)
             /\ \A i \in 1..Len(pl_days) :
                    /\ InRecent(pl_days[i][1]) => pl_days[i][2]
                    /\ UntouchedMiddle(pl_days[i][1]) => ~pl_days[i][2]

\* a plan with recent days, forced, and untouched middle days, not forced
C18_Witness ==
    /\ PlanDone
    /\ ~pl_args.recat
    /\ \E i \in 1..Len(pl_days) : InRecent(pl_days[i][1]) /\ pl_days[i][2]
    /\ \E i \in 1..Len(pl_days) : UntouchedMiddle(pl_days[i][1]) /\ ~pl_days[i][2]

\* a recatalogize-only plan that reaches into the redownload and recent days
C18_RecatReached ==
    /\ PlanDone
    /\ pl_args.recat
    /\ \E i \in 1..Len(pl_days) : InRecent(pl_days[i][1])
    /\ \E i \in 1..Len(pl_days) : InRedownload(pl_days[i][1])

\* the planner's first-run example: today is 2024-06-10, no marker (the last
\* day is taken as today), 10 recent days, a redownload window of 0 weeks and
\* recatalogizeOnly false
C19_Case ==
    /\ PlanDone
    /\ PlanToday = days_from_civil(2024, 6, 10)
    /\ pl_args.off = 0
    /\ pl_args.rd = 10
    /\ pl_args.thr = 0
    /\ ~pl_args.recat

\* the last n entries of the plan
LastEntries(n) == SubSeq(pl_days, Len(pl_days) - n + 1, Len(pl_days))

MiddleInverted == PlanLast + 1 > PlanToday - pl_args.rd
RecentInverted == PlanToday - pl_args.rd + 1 > PlanToday

\* C20: for all inputs the plan is strictly ascending by date, so no date
\* occurs twice; it holds no day later than today; and its dates are the days
\* up to today of the three intervals, an interval whose start is after its
\* end adding none.
C20_AscendingCappedUnion ==
    PlanDone =>
        /\ \A i \in 1..(Len(pl_days) - 1) : pl_days[i][1] < pl_days[i + 1][1]
        /\ \A d \in PlanDates : Cardinality(EntriesOf(d)) = 1
        /\ \A d \in PlanDates : d <= PlanToday
        /\ \A d \in PlanDates : InRedownload(d) \/ InMiddle(d) \/ InRecent(d)
        /\ \A d \in (PlanLast + 1)..(PlanToday - pl_args.rd) : d \in PlanDates
        /\ \A d \in (PlanToday - pl_args.rd + 1)..PlanToday : d \in PlanDates
        /\ \A d \in (PlanToday - 7 * pl_args.thr - pl_args.tw
                        - Max(0, PlanToday - PlanLast))
                     ..(PlanToday - 7 * pl_args.thr + pl_args.tw) :
                 d <= PlanToday => d \in PlanDates
        /\ MiddleInverted => \A d \in PlanDates : InRedownload(d) \/ InRecent(d)
        /\ RecentInverted => \A d \in PlanDates : InRedownload(d) \/ InMiddle(d)

\* a marker in the future and recentDays = 0: the middle and the recent
\* interval are inverted, and of the redownload interval [today-2, today+2]
\* the three days up to today are planned
C20_Witness ==
    /\ PlanDone
    /\ pl_args.off = 1
    /\ pl_args.rd = 0
    /\ pl_args.thr = 0
    /\ pl_args.tw = threshold_window
    /\ MiddleInverted
    /\ RecentInverted
    /\ Len(pl_days) = 3
    /\ pl_days[3][1] = PlanToday

-----------------------------------------------------------------------------
(* First run *)

\* no marker of the AOI when the run began: the file is absent, or it has no
\* entry of the AOI
FirstRun == startMarker = <<>>

\* the configuration the planner reads is there
PlannerConfigured ==
    IF w_kind = "cds" THEN w_recat # "unset" ELSE w_thr # <<>>

\* C21: on a first run (marker file absent, or no entry of the AOI in it) the
\* planning takes the last processed day as today and a plan is produced, one
\* that ends with today, instead of the run failing.
C21_FirstRunPlans ==
    (FirstRun /\ PlannerConfigured /\ wpc # "start") =>
        /\ plan # <<>>
        /\ plan[Len(plan)][1] = w_today
        /\ w_exc \notin {"ClientError", "KeyError"}

-----------------------------------------------------------------------------
(* CALC part: _get_retry_delay and the delay to the next scheduled run *)

MaxAttempt == 60

\* the attempt numbers handed to _get_retry_delay (0: get_run_attempt() when
\* no attempt was counted)
Attempts == 0..MaxAttempt

DelayInit ==
    /\ f_pc = "call"
    /\ f_in \in [attempt : Attempts]
    /\ f_out = <<>>
    /\ LockIdle
    /\ OrchIdle
    /\ WorkIdle
    /\ CatIdle
    /\ PlanIdle
    /\ FleetIdle
    /\ RetryIdle
    /\ ProcIdle
    /\ AuthIdle
    /\ SaveIdle

\* dataset_orchestrator.py:86-89  the call returns the delay
RetryDelayCall ==
    /\ f_pc = "call"
    /\ f_out' = <<get_retry_delay(f_in.attempt)>>
    /\ f_pc' = "done"
    /\ UNCHANGED <<otherThanCalc, f_in>>

DelayNext == RetryDelayCall

SpecDelay == DelayInit /\ [][DelayNext]_vars

\* C22: for every attempt >= 1 the delay returned is the table entry at
\* min(attempt-1, len-1): 600 for attempt 1, the entry of the attempt inside
\* the table, and the last entry, 28800, for every attempt beyond the table
\* length; a value is always returned.
C22_DelayFromTable ==
    (f_pc = "done" /\ f_in.attempt >= 1) =>
        /\ Len(f_out) = 1
        /\ f_in.attempt = 1 => f_out[1] = 600
        /\ f_in.attempt \in 1..Len(RETRY_DELAYS) =>
               f_out[1] = RETRY_DELAYS[f_in.attempt]
        /\ f_in.attempt > Len(RETRY_DELAYS) => f_out[1] = 28800
        /\ \E i \in 1..Len(RETRY_DELAYS) : f_out[1] = RETRY_DELAYS[i]

\* an attempt far beyond the table got the last entry
C22_Witness ==
    /\ f_pc = "done"
    /\ f_in.attempt = Len(RETRY_DELAYS) + 3
    /\ f_out = <<RETRY_DELAYS[Len(RETRY_DELAYS)]>>

\* datetime: the seconds of a day and the microseconds of a second
SecondsPerDay == 86400
MicrosPerSecond == 1000000

\* the hour:minute arguments of _run_scheduled (the default is 9:00)
SchedHours == {0, 9, 23}
SchedMinutes == {0, 30, 59}

MaxClockOffset == 1

\* datetime.now(timezone.utc): the time of day in whole seconds, around
\* midnight and around each scheduled time, and the microseconds
ClockSeconds ==
    {x \in 0..(SecondsPerDay - 1) :
        \/ x <= MaxClockOffset
        \/ x >= SecondsPerDay - 1 - MaxClockOffset
        \/ \E h \in SchedHours, m \in SchedMinutes :
              /\ x >= h * 3600 + m * 60 - MaxClockOffset
              /\ x <= h * 3600 + m * 60 + MaxClockOffset}
ClockMicros == {0, 1, MicrosPerSecond - 1}

\* a timedelta, normalised as Python keeps it: 0 <= microseconds < 10^6; the
\* arguments are seconds and microseconds of any sign
timedelta(sec, us) ==
    [seconds |-> sec + (IF us < 0 THEN 0 - 1 ELSE 0),
     microseconds |-> IF us < 0 THEN us + MicrosPerSecond ELSE us]

\* A variant that compares with < : the run time itself is kept as target.
next_run_delay_SameInstant(hour, minute, sec, us) ==
    LET target == hour * 3600 + minute * 60
        rolled == IF target < sec THEN target + SecondsPerDay ELSE target
    IN  timedelta(rolled - sec, 0 - us)

\* dataset_orchestrator.py:52-58  now.replace(hour, minute, second=0,
\* microsecond=0); if next_run <= now: next_run += timedelta(days=1);
\* next_run - now.  next_run has no microseconds, so next_run <= now is the
\* comparison of the whole seconds.
next_run_delay(hour, minute, sec, us) ==
    LET target == hour * 3600 + minute * 60
        rolled == IF target <= sec THEN target + SecondsPerDay ELSE target
    IN  timedelta(rolled - sec, 0 - us)

SchedInit ==
    /\ f_pc = "clock"
    /\ f_in \in [hour : SchedHours, minute : SchedMinutes,
                  sec : ClockSeconds, us : ClockMicros]
    /\ f_out = <<>>
    /\ LockIdle
    /\ OrchIdle
    /\ WorkIdle
    /\ CatIdle
    /\ PlanIdle
    /\ FleetIdle
    /\ RetryIdle
    /\ ProcIdle
    /\ AuthIdle
    /\ SaveIdle

\* dataset_orchestrator.py:52-60  the delay handed to time.sleep
NextRunDelay ==
    /\ f_pc = "clock"
    /\ f_out' = <<next_run_delay(f_in.hour, f_in.minute, f_in.sec, f_in.us)>>
    /\ f_pc' = "slept"
    /\ UNCHANGED <<otherThanCalc, f_in>>

SchedNext == NextRunDelay

SpecSched == SchedInit /\ [][SchedNext]_vars

SchedTarget == f_in.hour * 3600 + f_in.minute * 60

\* now is at or past today's hour:minute
AtOrPast == f_in.sec >= SchedTarget

\* the instant the sleep ends, in seconds and microseconds from today's
\* midnight
WakeUp ==
    LET us == f_in.us + f_out[1].microseconds
    IN  [sec |-> f_in.sec + f_out[1].seconds + us \div MicrosPerSecond,
         us |-> us % MicrosPerSecond]

\* C23: the delay slept after a scheduled run is greater than 0 and at most
\* 86400 s, it ends exactly at an occurrence of hour:minute:00, and when now
\* is at or past today's hour:minute that occurrence is tomorrow's, else
\* today's.
C23_NextOccurrence ==
    f_pc = "slept" =>
        /\ f_out[1].seconds > 0 \/ f_out[1].microseconds > 0
        /\ f_out[1].seconds >= 0
        /\ \/ f_out[1].seconds < SecondsPerDay
           \/ f_out[1].seconds = SecondsPerDay /\ f_out[1].microseconds = 0
        /\ WakeUp.us = 0
        /\ WakeUp.sec = IF AtOrPast THEN SchedTarget + SecondsPerDay
                        ELSE SchedTarget

\* now is exactly the scheduled time: the sleep is a whole day
C23_Witness ==
    /\ f_pc = "slept"
    /\ f_in.sec = SchedTarget
    /\ f_in.us = 0
    /\ f_out[1] = [seconds |-> SecondsPerDay, microseconds |-> 0]

-----------------------------------------------------------------------------
(* FLEET part: STAC_DC.run, one future per orchestrator *)

\* the orchestrators _prepare_orchestrators built, in list order
Orchestrators == {1, 2, 3}

MaxFleetTicks == 2

\* stac_dc.py:60-64  what run() does with the exception future.result()
\* re-raises: `except Exception` logs it
OnFutureException_Reraise(o) == "raise"

OnFutureException(o) == "log"

FleetInit ==
    /\ fl_pc = "submit"
    /\ fl_state = [o \in Orchestrators |-> "pending"]
    /\ fl_ticks = [o \in Orchestrators |-> 0]
    /\ fl_seen = {}
    /\ fl_log = <<>>
    /\ LockIdle
    /\ OrchIdle
    /\ WorkIdle
    /\ CatIdle
    /\ PlanIdle
    /\ CalcIdle
    /\ SaveIdle
    /\ AuthIdle
    /\ ProcIdle
    /\ RetryIdle

\* stac_dc.py:47-51  executor.submit(orchestrator.execute) for the next
\* orchestrator of the list; max_workers is the number of orchestrators, so
\* its thread starts at once
FleetSubmit(o) ==
    /\ fl_pc = "submit"
    /\ fl_state[o] = "pending"
    /\ \A p \in Orchestrators : p < o => fl_state[p] # "pending"
    /\ fl_state' = [fl_state EXCEPT ![o] = "running"]
    /\ fl_pc' = IF \A p \in Orchestrators : p > o => fl_state[p] # "pending"
                THEN "waiting" ELSE "submit"
    /\ UNCHANGED <<otherThanFleet, fl_ticks, fl_seen, fl_log>>

\* dataset_orchestrator.py:42-60  one iteration of the schedule loop of o
OrchIterate(o) ==
    /\ fl_state[o] = "running"
    /\ fl_ticks[o] < MaxFleetTicks
    /\ fl_ticks' = [fl_ticks EXCEPT ![o] = @ + 1]
    /\ UNCHANGED <<otherThanFleet, fl_pc, fl_state, fl_seen, fl_log>>

\* dataset_orchestrator.py:29-39  execute() of o ends with an exception it
\* does not handle; the executor stores it in the future
OrchFails(o) ==
    /\ fl_state[o] = "running"
    /\ fl_state' = [fl_state EXCEPT ![o] = "failed"]
    /\ UNCHANGED <<otherThanFleet, fl_pc, fl_ticks, fl_seen, fl_log>>

\* stac_dc.py:53-64  as_completed yields the future of o, future.result()
\* raises its exception and the handler logs it
FleetResult(o) ==
    /\ fl_pc = "waiting"
    /\ fl_state[o] = "failed"
    /\ o \notin fl_seen
    /\ fl_seen' = fl_seen \cup {o}
    /\ IF OnFutureException(o) = "log"
       THEN /\ fl_log' = Append(fl_log, [orch |-> o, ticks |-> fl_ticks])
            /\ UNCHANGED fl_pc
       ELSE /\ fl_pc' = "raising"
            /\ UNCHANGED fl_log
    /\ UNCHANGED <<otherThanFleet, fl_state, fl_ticks>>

\* stac_dc.py:47, 53  as_completed is exhausted, the with-block ends with
\* executor.shutdown(wait=True), and run() returns (or the exception that
\* left the loop goes on)
FleetReturn ==
    /\ \/ fl_pc = "waiting" /\ fl_seen = Orchestrators
       \/ fl_pc = "raising"
    /\ \A o \in Orchestrators : fl_state[o] = "failed"
    /\ fl_pc' = IF fl_pc = "waiting" THEN "returned" ELSE "raised"
    /\ UNCHANGED <<otherThanFleet, fl_state, fl_ticks, fl_seen, fl_log>>

FleetNext ==
    \/ \E o \in Orchestrators : FleetSubmit(o)
    \/ \E o \in Orchestrators : OrchIterate(o)
    \/ \E o \in Orchestrators : OrchFails(o)
    \/ \E o \in Orchestrators : FleetResult(o)
    \/ FleetReturn

SpecFleet == FleetInit /\ [][FleetNext]_vars

\* the error lines of run() that name orchestrator o
LogLinesOf(o) == {i \in 1..Len(fl_log) : fl_log[i].orch = o}

\* C24: an orchestrator whose execute() ended with an unhandled exception is
\* logged by run(), once, when its future is taken; a running orchestrator
\* can always go on with its schedule whatever the others did; and run()
\* ends only after every orchestrator has terminated, by returning.
C24_FailureIsolated ==
    /\ \A o \in Orchestrators :
          /\ o \in fl_seen => fl_state[o] = "failed" /\ Cardinality(LogLinesOf(o)) = 1
          /\ o \notin fl_seen => LogLinesOf(o) = {}
          /\ (fl_state[o] = "running" /\ fl_ticks[o] < MaxFleetTicks) =>
                 ENABLED OrchIterate(o)
    /\ fl_pc \notin {"raising", "raised"}
    /\ fl_pc = "returned" =>
          \A o \in Orchestrators : fl_state[o] = "failed" /\ o \in fl_seen

\* orchestrator 1 failed and was logged, and orchestrator 2, still running,
\* has done an iteration since that line was written
C24_Witness ==
    /\ fl_pc = "waiting"
    /\ fl_state[1] = "failed"
    /\ fl_state[2] = "running"
    /\ \E i \in LogLinesOf(1) : fl_ticks[2] > fl_log[i].ticks[2]

\* run() has returned
C24_Returned == fl_pc = "returned" /\ Len(fl_log) = Cardinality(Orchestrators)

-----------------------------------------------------------------------------
(* LOCK part: the release inside locked() *)

\* locked() has ended for p after its body ran
LockedEnded(p) == pc[p] = "done" /\ bodyRan[p]

\* C25: a failure of release_lock inside Storage.locked is logged and not
\* propagated: after a body that returned the with-block ends without an
\* exception, and after a body that raised it ends with the body's exception,
\* whatever happened to the lock object meanwhile.
C25_ReleaseFailureNotPropagated ==
    \A p \in Procs :
        LockedEnded(p) => exc[p].type \in {"none", "BodyError"}

-----------------------------------------------------------------------------
(* WORK part: the persisted marker across steps and runs *)

\* the AOI's persisted marker as a day number
PersistedDay(file) == strptime(OwnEntry(file)[1])

\* C26: the persisted marker of the AOI never moves to a date earlier than a
\* value it held before: no step of a run replaces it by an earlier date, so
\* in particular the first marker write of a run is not earlier than the
\* marker read when the run began.
C26_MarkerNeverMovesBack ==
    [][OwnEntry(markerFile) # <<>> =>
          /\ OwnEntry(markerFile') # <<>>
          /\ PersistedDay(markerFile') >= PersistedDay(markerFile)]_vars

\* the first marker write of a run that found a marker is earlier than it
C26_FirstWriteEarlier ==
    /\ startMarker # <<>>
    /\ Len(MarkerUploads) = 1
    /\ OwnEntry(markerFile) # <<>>
    /\ PersistedDay(markerFile) < strptime(startMarker[1])

-----------------------------------------------------------------------------
(* ORCH part: the delays of one scheduled run *)

\* C27: within one scheduled run the delay slept after the k-th consecutive
\* failed attempt is RETRY_DELAYS[min(k-1, len-1)] (0-based), so the delays
\* start with 600 s after the first failure and never decrease.
C27_EscalatingDelays ==
    \A t \in Threads :
        opc[t] = "retry_sleep" =>
            /\ failed[t] >= 1
            /\ delay[t] = RETRY_DELAYS[Min(failed[t] - 1, Len(RETRY_DELAYS) - 1) + 1]
            /\ failed[t] = 1 => delay[t] = 600

-----------------------------------------------------------------------------
(* LOCK part: what the expiry delete removes, and failed acquires *)

\* C28: under any interleaving, the delete that acquire_lock issues after it
\* read an expired record removes an expired record: never a live one that
\* another process wrote between that read and the delete.
C28_ExpiryDeletesExpiredOnly ==
    \A d \in delLog :
        (d.via = "expiry" /\ d.rec # <<>>) => d.age > d.rec[1].ttl

\* storage.py:79-83, s3.py:79-84  the read-back fails although the object is
\* in the store (the request is refused or times out, or the bytes read do not
\* parse): the exception leaves acquire_lock; the finally block removes the
\* temporary files only
VerifyFails(p) ==
    /\ pc[p] = "verify"
    /\ objects[lname(p)] # <<>>
    /\ exc' = [exc EXCEPT ![p] = ClientError(lname(p))]
    /\ pc' = [pc EXCEPT ![p] = FinallyPc(lock_id[p], TRUE)]
    /\ UNCHANGED <<otherThanLock, now, objects, key, max_retries, ttl,
                   attempt, stamp, content, lock_id, bodyRan, relTried,
                   sleeps, staleAtCall, delLog>>

\* One process on a store whose reads can fail.
FaultyNext == SoloNext \/ VerifyFails(1)

SpecFaulty == Init /\ [][FaultyNext]_vars

\* acquire_lock has exited with an error for p: no id was returned
AcquireRaised(p) ==
    /\ pc[p] = "done"
    /\ lock_id[p] = <<>>
    /\ exc[p].type \in {"ClientError", "StorageCannotAcquireLock"}

\* the store holds a lock record with p's id under p's key
OwnRecordInStore(p) ==
    /\ objects[lname(p)] # <<>>
    /\ objects[lname(p)][1].uuid = uuid4(p)

\* C30: whenever acquire_lock exits with an error (the read-back after its
\* write failed, or the retries are exhausted) the store holds no lock record
\* with the caller's id.
C30_FailedAcquireLeavesNoRecord ==
    \A p \in Procs : AcquireRaised(p) => ~OwnRecordInStore(p)

-----------------------------------------------------------------------------
(* WORK part: what the marker write changes *)

\* the marker file's entry of AOI a: <<>> when the file or the key is absent
EntryOf(file, a) == IF file = <<>> THEN <<>> ELSE file[1][a]

\* C29: the upload of _set_last_downloaded_day changes only the calling AOI's
\* entry of the marker file: the entry of every other AOI is the same after
\* it as before, also when the read of the existing file had failed.
C29_OnlyOwnEntryChanges ==
    [][wpc = "m_upload" =>
          \A a \in AOIs \ {OwnAOI} :
              EntryOf(markerFile', a) = EntryOf(markerFile, a)]_vars

-----------------------------------------------------------------------------
(* SAVE part: _save_item_missing_usgs_stac called by two processes *)

Savers == {1, 2}

\* the display ids the two calls save, and one saved before
display_id_of(p) == IF p = 1 THEN "LC08_A" ELSE "LC09_B"
SavedBefore == "LE07_Z"

\* landsat_worker.py:118-119  if display_id not in data: data.append(...)
append_missing(data, id) == data \cup {id}

SaveInit ==
    /\ sv_pc = [p \in Savers |-> "acquire1"]
    /\ sv_data = [p \in Savers |-> {}]
    /\ sv_file \in {<<>>, <<{}>>, <<{SavedBefore}>>}
    /\ sv_lock = 0
    /\ sv_exc = [p \in Savers |-> "none"]
    /\ LockIdle
    /\ OrchIdle
    /\ WorkIdle
    /\ CatIdle
    /\ PlanIdle
    /\ CalcIdle
    /\ FleetIdle
    /\ RetryIdle
    /\ ProcIdle
    /\ AuthIdle

\* landsat_worker.py:95  with self._storage.locked(...): the lock is free and
\* p gets it
SaveAcquire1(p) ==
    /\ sv_pc[p] = "acquire1"
    /\ sv_lock = 0
    /\ sv_lock' = p
    /\ sv_pc' = [sv_pc EXCEPT ![p] = "download"]
    /\ UNCHANGED <<otherThanSave, sv_data, sv_file, sv_exc>>

\* landsat_worker.py:98-112  download and json.load inside the first block.
\* s3.py:79-84: the download of a missing key raises ClientError, which
\* `except FileNotFoundError` does not catch.
SaveDownload(p) ==
    /\ sv_pc[p] = "download"
    /\ IF sv_file = <<>>
       THEN /\ sv_exc' = [sv_exc EXCEPT ![p] = "ClientError"]
            /\ UNCHANGED sv_data
       ELSE /\ sv_data' = [sv_data EXCEPT ![p] = sv_file[1]]
            /\ UNCHANGED sv_exc
    /\ sv_pc' = [sv_pc EXCEPT ![p] = "release1"]
    /\ UNCHANGED <<otherThanSave, sv_file, sv_lock>>

\* storage.py:42-54  the first locked() block ends: the lock is released, and
\* an exception raised in the block ends the call
SaveRelease1(p) ==
    /\ sv_pc[p] = "release1"
    /\ sv_lock' = 0
    /\ sv_pc' = [sv_pc EXCEPT ![p] = IF sv_exc[p] = "none" THEN "append" ELSE "raised"]
    /\ UNCHANGED <<otherThanSave, sv_data, sv_file, sv_exc>>

\* landsat_worker.py:118-119  the id is appended to the local list, outside
\* any lock
SaveAppend(p) ==
    /\ sv_pc[p] = "append"
    /\ sv_data' = [sv_data EXCEPT ![p] = append_missing(@, display_id_of(p))]
    /\ sv_pc' = [sv_pc EXCEPT ![p] = "acquire2"]
    /\ UNCHANGED <<otherThanSave, sv_file, sv_lock, sv_exc>>

\* landsat_worker.py:121-126  the second locked() block acquires the lock
SaveAcquire2(p) ==
    /\ sv_pc[p] = "acquire2"
    /\ sv_lock = 0
    /\ sv_lock' = p
    /\ sv_pc' = [sv_pc EXCEPT ![p] = "upload"]
    /\ UNCHANGED <<otherThanSave, sv_data, sv_file, sv_exc>>

\* landsat_worker.py:127-130  storage.upload of the local list
SaveUpload(p) ==
    /\ sv_pc[p] = "upload"
    /\ sv_file' = <<sv_data[p]>>
    /\ sv_pc' = [sv_pc EXCEPT ![p] = "release2"]
    /\ UNCHANGED <<otherThanSave, sv_data, sv_lock, sv_exc>>

\* storage.py:42-54  the second locked() block ends and the call returns
SaveRelease2(p) ==
    /\ sv_pc[p] = "release2"
    /\ sv_lock' = 0
    /\ sv_pc' = [sv_pc EXCEPT ![p] = "done"]
    /\ UNCHANGED <<otherThanSave, sv_data, sv_file, sv_exc>>

SaveStep(p) ==
    \/ SaveAcquire1(p)
    \/ SaveDownload(p)
    \/ SaveRelease1(p)
    \/ SaveAppend(p)
    \/ SaveAcquire2(p)
    \/ SaveUpload(p)
    \/ SaveRelease2(p)

SaveNext == \E p \in Savers : SaveStep(p)

SpecSave == SaveInit /\ [][SaveNext]_vars

\* C31: after both processes have completed _save_item_missing_usgs_stac with
\* distinct display ids, the stored list holds both ids and all it held
\* before.
C31_NoLostUpdate ==
    (\A p \in Savers : sv_pc[p] = "done") =>
        /\ sv_file # <<>>
        /\ \A p \in Savers : display_id_of(p) \in sv_file[1]

-----------------------------------------------------------------------------
(* Order of store, registration and marker within one day *)

\* C32: in both worker kinds, when the registration of a day's item has been
\* submitted the item has been uploaded to the storage before, and the marker
\* of the day is written only after both.
C32_StoreBeforeRegister ==
    /\ "registered" \in dayLog => "item_stored" \in dayLog
    /\ ("marker" \in dayLog /\ assets > 0) =>
           {"item_stored", "registered"} \subseteq dayLog

-----------------------------------------------------------------------------
(* Merging of overlapping intervals *)

\* the orders in which the three intervals can be merged
MergeOrders == {o \in [1..3 -> 1..3] : \A i, j \in 1..3 : o[i] = o[j] => i = j}

\* dataset_worker.py:160-164  the loop over the intervals, taken in the order o
days_map_in_order(iv, o, today, recat) ==
    LET m1 == AddRange(<<>>, iv[o[1]][1], iv[o[1]][2], iv[o[1]][3], today, recat)
        m2 == AddRange(m1, iv[o[2]][1], iv[o[2]][2], iv[o[2]][3], today, recat)
    IN  AddRange(m2, iv[o[3]][1], iv[o[3]][2], iv[o[3]][3], today, recat)

PlanIntervals ==
    intervals(PlanToday, PlanLast, pl_args.thr, pl_args.rd, pl_args.tw)

-----------------------------------------------------------------------------
(* Depth of delete-then-retry in register_stac_item *)

\* every registration sent so far was answered by a conflict and every
\* delete by a 200
OnlyConflicts(log) ==
    \A k \in 1..Len(log) :
        IF log[k].method = "POST" THEN ConflictResponse(log[k].resp)
        ELSE log[k].resp.status = 200

\* C34: register_stac_item puts no bound on delete-then-retry: after n
\* conflicts followed by a success it returns having sent n deletes and n + 1
\* registrations, for every n; and as long as every registration is answered
\* by a conflict it has no result, neither returned nor raised, and goes on to
\* the next delete or registration.
C34_UnboundedRetry ==
    /\ (/\ c_log # <<>>
        /\ OnlyConflicts(SubSeq(c_log, 1, Len(c_log) - 1))
        /\ c_log[Len(c_log)].method = "POST"
        /\ SuccessResponse(c_log[Len(c_log)].resp))
       => /\ c_pc = "returned"
          /\ c_ret = <<c_log[Len(c_log)].resp.featureId>>
          /\ NumPosts = NumDeletes + 1
          /\ Len(c_log) = 2 * NumDeletes + 1
    /\ OnlyConflicts(c_log) =>
          /\ c_ret = <<>>
          /\ c_pc = (IF Len(c_log) % 2 = 0 THEN "post" ELSE "delete")

\* the call returned after as many conflicts as the bound of the model lets
\* the backend report
C34_Witness ==
    /\ c_pc = "returned"
    /\ NumPosts = MaxPosts
    /\ NumDeletes = MaxPosts - 1
    /\ OnlyConflicts(SubSeq(c_log, 1, Len(c_log) - 1))

\* the backend has reported nothing but conflicts and the call is about to
\* register again
C34_StillRetrying ==
    /\ c_pc = "post"
    /\ NumDeletes = MaxPosts
    /\ OnlyConflicts(c_log)

-----------------------------------------------------------------------------
(* The loop of _run_scheduled: runs and sleeps on the clock of one day *)

MaxLoops == 2

\* how long one _run_once takes, in seconds
RunSeconds == {0, 1, 3600}

\* dataset_orchestrator.py:41-42  execute() has called _run_scheduled at some
\* time of day; the loop body begins with the run
LoopInit ==
    /\ f_pc = "run"
    /\ f_in \in [hour : SchedHours, minute : SchedMinutes,
                  sec : ClockSeconds, us : {0}]
    /\ f_out = <<>>
    /\ LockIdle
    /\ OrchIdle
    /\ WorkIdle
    /\ CatIdle
    /\ PlanIdle
    /\ FleetIdle
    /\ RetryIdle
    /\ ProcIdle
    /\ AuthIdle
    /\ SaveIdle

\* dataset_orchestrator.py:43-47  the lock of the orchestrator is free, so
\* _run_once is called now; f_out keeps the time of day each run started
LoopRunOnce ==
    /\ f_pc = "run"
    /\ Len(f_out) < MaxLoops
    /\ f_out' = Append(f_out, f_in.sec)
    /\ \E d \in RunSeconds :
          f_in' = [f_in EXCEPT !.sec = (f_in.sec + d) % SecondsPerDay]
    /\ f_pc' = "clock"
    /\ UNCHANGED otherThanCalc

\* dataset_orchestrator.py:52-60  the next run time is computed and
\* time.sleep(delay) returns at it
LoopSleep ==
    /\ f_pc = "clock"
    /\ LET slept == next_run_delay(f_in.hour, f_in.minute, f_in.sec, f_in.us)
       IN  f_in' = [f_in EXCEPT !.sec = (f_in.sec + slept.seconds) % SecondsPerDay]
    /\ f_pc' = "run"
    /\ UNCHANGED <<otherThanCalc, f_out>>

LoopNext == LoopRunOnce \/ LoopSleep

SpecLoop == LoopInit /\ [][LoopNext]_vars

\* C35: every run of _run_once starts at the configured hour:minute, the
\* first run after the start of the orchestrator included.
C35_RunsOnlyAtScheduledTime ==
    \A i \in 1..Len(f_out) : f_out[i] = SchedTarget

\* the runs after the first sleep start at hour:minute
RunsAfterFirstAtScheduledTime ==
    \A i \in 2..Len(f_out) : f_out[i] = SchedTarget

-----------------------------------------------------------------------------
(* What a normal return of run() means *)

\* every day of the plan has been finished, in the plan's order, and the
\* persisted marker of the AOI is today
AllDaysDone ==
    /\ Len(wlog) = Len(plan)
    /\ \A i \in 1..Len(wlog) : wlog[i] = plan[i][1]
    /\ OwnEntry(markerFile) = MarkerOf(w_today)

-----------------------------------------------------------------------------
(* AUTH part: the token a client sends with its requests *)

MaxHours == 14
MaxRequests == 2

AuthKinds == {"stac", "usgs"}

\* stac.py:140 timedelta(hours=12); usgs_m2m_connector.py:70 timedelta(hours=2)
Validity(kind) == IF kind = "stac" THEN 12 ELSE 2

\* what the login request can end with
LoginOutcomes == {"ok", "not_ok", "no_token", "timeout"}

\* stac.py:148-154, 128; usgs_m2m_connector.py:86-87, 108, 116-119  the
\* exception _login / _login_token raises for an outcome
LoginException(kind, outcome) ==
    IF outcome = "ok" THEN "none"
    ELSE IF kind = "stac"
    THEN (IF outcome = "not_ok" THEN "STACRequestNotOK"
          ELSE IF outcome = "no_token" THEN "STACTokenNotObtainedError"
          ELSE "STACRequestTimeout")
    ELSE (IF outcome = "no_token" THEN "USGSM2MTokenNotObtainedException"
          ELSE "USGSM2MRequestNotOK")

\* stac.py:24-25  the client after construction: no token, the deadline at
\* the epoch; usgs_m2m_connector.py:55-57: the deadline at the construction,
\* which is before any request
AuthInit ==
    /\ a_kind \in AuthKinds
    /\ a_pc = "idle"
    /\ a_now = 1
    /\ a_until = 0
    /\ a_token = <<>>
    /\ a_log = <<>>
    /\ a_exc = "none"
    /\ LockIdle
    /\ OrchIdle
    /\ WorkIdle
    /\ CatIdle
    /\ PlanIdle
    /\ CalcIdle
    /\ FleetIdle
    /\ RetryIdle
    /\ ProcIdle
    /\ SaveIdle

\* time passes between two requests
AuthTick ==
    /\ a_pc = "idle"
    /\ \E h \in {1, Validity(a_kind)} :
          /\ a_now + h <= MaxHours
          /\ a_now' = a_now + h
    /\ UNCHANGED <<otherThanAuth, a_kind, a_pc, a_until, a_token, a_log, a_exc>>

\* stac.py:103-105, 140; usgs_m2m_connector.py:125-126, 67-70  a request to
\* a non-auth endpoint begins: when the deadline has passed the login is
\* called, which sets the new deadline (the USGS client also drops its
\* token) before it sends the login request
RequestBegin ==
    /\ a_pc = "idle"
    /\ Len(a_log) < MaxRequests
    /\ a_exc' = "none"
    /\ IF a_until < a_now
       THEN /\ a_pc' = "login"
            /\ a_until' = a_now + Validity(a_kind)
            /\ a_token' = IF a_kind = "usgs" THEN <<>> ELSE a_token
       ELSE /\ a_pc' = "send"
            /\ UNCHANGED <<a_until, a_token>>
    /\ UNCHANGED <<otherThanAuth, a_kind, a_now, a_log>>

\* stac.py:142-154; usgs_m2m_connector.py:80-119  the login request ends:
\* with a token, which is kept and the request goes on; or with a status that
\* is not 200, without a token, or with the retries exhausted, which raises
\* out of the request. stac.py:152 assigns content.get('token') before the
\* test, so a missing token replaces the token held by None.
LoginEnds ==
    /\ a_pc = "login"
    /\ \E outcome \in LoginOutcomes :
          /\ a_exc' = LoginException(a_kind, outcome)
          /\ a_pc' = IF outcome = "ok" THEN "send" ELSE "idle"
          /\ a_token' = IF outcome = "ok" THEN <<a_now>>
                        ELSE IF outcome = "no_token" THEN <<>>
                        ELSE a_token
    /\ UNCHANGED <<otherThanAuth, a_kind, a_now, a_until, a_log>>

\* stac.py:106-108; usgs_m2m_connector.py:444  the request is sent with the
\* token the client holds
RequestSend ==
    /\ a_pc = "send"
    /\ a_log' = Append(a_log, [token |-> a_token, at |-> a_now])
    /\ a_pc' = "idle"
    /\ UNCHANGED <<otherThanAuth, a_kind, a_now, a_until, a_token, a_exc>>

AuthNext == AuthTick \/ RequestBegin \/ LoginEnds \/ RequestSend

SpecAuth == AuthInit /\ [][AuthNext]_vars

\* the request carried a token of a successful login, within its validity
SentWithValidToken(e) ==
    /\ e.token # <<>>
    /\ e.at <= e.token[1] + Validity(a_kind)

\* C37: every request to a non-auth endpoint is sent with a token obtained by
\* a successful login and still within its validity; and after a failed login
\* the deadline of the token is not in the future, so the next request logs
\* in again.
C37_OnlyValidTokensSent ==
    /\ \A i \in 1..Len(a_log) : SentWithValidToken(a_log[i])
    /\ (a_pc = "idle" /\ a_exc # "none") => a_until < a_now

-----------------------------------------------------------------------------
(* PROC part: CDSWorker._process_day for one day *)

MaxCombos == 3

\* cds_worker.py:106-107  the (product_type, data_format) combinations, in
\* the order of the two loops
Combos == 1..MaxCombos

\* A variant that skips every product whose key exists.
SkipFetch_IgnoreForce(force, exists) == exists

\* cds_worker.py:112  if not force_redownload and self._storage.exists(...)
SkipFetch(force, exists) == ~force /\ exists

\* cds_worker.py:102-110  the call, its argument and the storage it finds
ProcInit ==
    /\ pd_pc = "check"
    /\ pd_force \in BOOLEAN
    /\ pd_keys \in SUBSET Combos
    /\ pd_k = 1
    /\ pd_checked = {}
    /\ pd_fetched = {}
    /\ pd_uploaded = {}
    /\ pd_assets = {}
    /\ pd_exc = "none"
    /\ LockIdle
    /\ OrchIdle
    /\ WorkIdle
    /\ CatIdle
    /\ PlanIdle
    /\ CalcIdle
    /\ FleetIdle
    /\ RetryIdle
    /\ SaveIdle
    /\ AuthIdle

\* the position after combination k is done: the next one, or the return
AfterCombo(k) == IF k < MaxCombos THEN "check" ELSE "returned"

\* cds_worker.py:112-115  `and` asks storage.exists only when the day is not
\* forced; a key that exists then gives the asset and ends the iteration
ProcCheck ==
    /\ pd_pc = "check"
    /\ pd_checked' = IF pd_force THEN pd_checked ELSE pd_checked \cup {pd_k}
    /\ IF SkipFetch(pd_force, pd_k \in pd_keys)
       THEN /\ pd_assets' = pd_assets \cup {pd_k}
            /\ pd_pc' = AfterCombo(pd_k)
            /\ pd_k' = pd_k + 1
       ELSE /\ pd_pc' = "fetch"
            /\ UNCHANGED <<pd_assets, pd_k>>
    /\ UNCHANGED <<otherThanProc, pd_force, pd_keys, pd_fetched, pd_uploaded, pd_exc>>

\* cds_worker.py:119-126, 189-219  _download_from_api returns the path of
\* the file or raises; it never returns None, so `if not tmp_file: continue`
\* is not taken
ProcFetch ==
    /\ pd_pc = "fetch"
    /\ pd_fetched' = pd_fetched \cup {pd_k}
    /\ \E outcome \in {"file", "CDSWorkerDataNotAvailableYet", "HTTPError"} :
          IF outcome = "file"
          THEN pd_pc' = "store" /\ UNCHANGED pd_exc
          ELSE pd_pc' = "raised" /\ pd_exc' = outcome
    /\ UNCHANGED <<otherThanProc, pd_force, pd_keys, pd_k, pd_checked, pd_uploaded, pd_assets>>

\* cds_worker.py:128-136  _save_to_storage and assets.append; an exception
\* of the upload is logged and raised again
ProcStore ==
    /\ pd_pc = "store"
    /\ pd_uploaded' = pd_uploaded \cup {pd_k}
    /\ \E ok \in BOOLEAN :
          IF ok
          THEN /\ pd_assets' = pd_assets \cup {pd_k}
               /\ pd_pc' = AfterCombo(pd_k)
               /\ pd_k' = pd_k + 1
               /\ UNCHANGED pd_exc
          ELSE /\ pd_pc' = "raised"
               /\ pd_exc' = "Exception"
               /\ UNCHANGED <<pd_assets, pd_k>>
    /\ UNCHANGED <<otherThanProc, pd_force, pd_keys, pd_checked, pd_fetched>>

ProcNext == ProcCheck \/ ProcFetch \/ ProcStore

SpecProc == ProcInit /\ [][ProcNext]_vars

\* the combinations whose iteration of the loop has ended without exception
CombosDone == {k \in Combos : k < pd_k}

\* C38: for each (productType, dataFormat) of a day that has been handled:
\* when forceRedownload is false and the storage key exists, its asset is
\* recorded and it is neither fetched nor uploaded; when forceRedownload is
\* true it is fetched and uploaded, and its asset recorded, whether the key
\* exists or not, and the storage is not asked whether the key exists.
C38_SkipOnlyExistingUnforced ==
    \A k \in CombosDone :
        /\ (~pd_force /\ k \in pd_keys) =>
               /\ k \in pd_assets
               /\ k \notin pd_fetched
               /\ k \notin pd_uploaded
        /\ pd_force =>
               /\ k \in pd_fetched
               /\ k \in pd_uploaded
               /\ k \in pd_assets
               /\ k \notin pd_checked

\* a forced day done, some of its keys in the storage before and some not
C38_Witness ==
    /\ pd_pc = "returned"
    /\ pd_force
    /\ pd_keys # {}
    /\ pd_keys # Combos
    /\ pd_uploaded = Combos

\* an unforced day done: the keys found are skipped, the others fetched
C38_UnforcedMixed ==
    /\ pd_pc = "returned"
    /\ ~pd_force
    /\ pd_keys # {}
    /\ pd_fetched = Combos \ pd_keys
    /\ pd_fetched # {}
    /\ pd_assets = Combos

-----------------------------------------------------------------------------
(* RETRY part: STAC._retry_request *)

MaxRetryArg == 5

\* stac.py:96  max_retries, 5 by default
RetryArgs == 0..MaxRetryArg

\* the status codes of the responses the catalogue gives
HttpStatuses == {200, 404, 500}

\* what an attempt that raised httpx.RequestError is logged as: no status
RequestError == 0

\* stac.py:110  sleep_base=5
sleep_base == 5

\* random.random(), in tenths: a value of [0, 1)
RandomTenths == {0, 5, 9}

\* stac.py:124  (1 + random.random()) * sleep_base, in tenths of a second
sleep_time(r) == (10 + r) * sleep_base

\* A variant that stops one attempt early.
RetryLoop_Strict(retry, max) == retry < max

\* stac.py:112  while retry <= max_retries
RetryLoop(retry, max) == retry <= max

\* stac.py:110-111  the call: retry = 1
RetryInit ==
    /\ rr_pc = "loop"
    /\ rr_max \in RetryArgs
    /\ rr_retry = 1
    /\ rr_log = <<>>
    /\ rr_sleeps = <<>>
    /\ rr_ret = <<>>
    /\ LockIdle
    /\ OrchIdle
    /\ WorkIdle
    /\ CatIdle
    /\ PlanIdle
    /\ CalcIdle
    /\ FleetIdle
    /\ SaveIdle
    /\ AuthIdle
    /\ ProcIdle

\* stac.py:112-120  one attempt that is answered: the response is returned,
\* whatever its status
RetryResponse ==
    /\ rr_pc = "loop"
    /\ RetryLoop(rr_retry, rr_max)
    /\ \E st \in HttpStatuses :
          /\ rr_log' = Append(rr_log, st)
          /\ rr_ret' = <<st>>
    /\ rr_pc' = "returned"
    /\ UNCHANGED <<otherThanRetry, rr_max, rr_retry, rr_sleeps>>

\* stac.py:112-126  one attempt that ends in httpx.RequestError: retry += 1
\* and the jittered sleep
RetryError ==
    /\ rr_pc = "loop"
    /\ RetryLoop(rr_retry, rr_max)
    /\ rr_log' = Append(rr_log, RequestError)
    /\ rr_retry' = rr_retry + 1
    /\ \E r \in RandomTenths : rr_sleeps' = Append(rr_sleeps, sleep_time(r))
    /\ UNCHANGED <<otherThanRetry, rr_pc, rr_max, rr_ret>>

\* stac.py:128  the loop is over: raise STACRequestTimeout
RetryExhausted ==
    /\ rr_pc = "loop"
    /\ ~RetryLoop(rr_retry, rr_max)
    /\ rr_pc' = "raised"
    /\ rr_ret' = "STACRequestTimeout"
    /\ UNCHANGED <<otherThanRetry, rr_max, rr_retry, rr_log, rr_sleeps>>

RetryNext == RetryResponse \/ RetryError \/ RetryExhausted

SpecRetry == RetryInit /\ [][RetryNext]_vars

\* the attempts that ended in a transport error
TransportErrors == {i \in 1..Len(rr_log) : rr_log[i] = RequestError}

\* C39: _retry_request makes at most max_retries HTTP attempts; it returns
\* the first response received, whatever its status; it has slept between 5
\* and 10 seconds after each transport error; and it raises STACRequestTimeout
\* exactly when max_retries attempts have all ended in transport errors.
C39_BoundedRetry ==
    /\ Len(rr_log) <= rr_max
    /\ Len(rr_sleeps) = Cardinality(TransportErrors)
    /\ \A i \in 1..Len(rr_sleeps) : 50 <= rr_sleeps[i] /\ rr_sleeps[i] <= 100
    /\ \A i \in 1..Len(rr_log) :
           rr_log[i] # RequestError =>
               /\ i = Len(rr_log)
               /\ rr_pc = "returned"
               /\ rr_ret = <<rr_log[i]>>
    /\ rr_pc = "returned" => rr_log[Len(rr_log)] \in HttpStatuses
    /\ rr_pc = "raised" =>
           /\ rr_ret = "STACRequestTimeout"
           /\ Len(rr_log) = rr_max
           /\ Cardinality(TransportErrors) = rr_max
    /\ (rr_pc = "loop" /\ Cardinality(TransportErrors) = rr_max) =>
           ~RetryLoop(rr_retry, rr_max)

\* the default number of attempts, every one a transport error, and the
\* timeout raised
C39_Witness ==
    /\ rr_pc = "raised"
    /\ rr_max = 5
    /\ Len(rr_log) = 5
    /\ Len(rr_sleeps) = 5

\* a response that is no success, returned at the last attempt allowed
C39_LastAttemptAnswered ==
    /\ rr_pc = "returned"
    /\ rr_max >= 2
    /\ Len(rr_log) = rr_max
    /\ rr_ret = <<500>>

====
